---- MODULE Spec2Model ----
(***************************************************************************)
(* Model of the LinkedIn profile enhancer's deterministic core:            *)
(*   agents/analyzer_agent.py  (AnalyzerAgent)                             *)
(*   utils/job_matcher.py      (JobMatcher)                                *)
(*   agents/scraper_agent.py   (ScraperAgent)                              *)
(*   utils/linkedin_parser.py  (LinkedInParser)                            *)
(* and of the callers that keep state between calls:                       *)
(*   agents/orchestrator.py    (ProfileOrchestrator.enhance_profile)       *)
(*   streamlit_app.py          (st.session_state, the Enhance button)      *)
(*   app2.py                   (LinkedInEnhancerGradio)                    *)
(*                                                                         *)
(* Python str values are TLA+ strings; Len, \o, SubSeq, Head and Tail work *)
(* on them character by character.  A value whose Python type may vary     *)
(* (a profile field that may be None or a non-string) is a tagged record   *)
(* [t |-> <type name>, v |-> <payload>].  A raised exception is the value  *)
(* Raised.  Python floats are modelled as exact rationals [n, d].          *)
(***************************************************************************)
EXTENDS Integers, Sequences, FiniteSets, TLC

VARIABLES
    arg_profile,        \* the profile_data argument of the call
    arg_job,            \* the job_description argument of the call
    arg_profile_skills, \* find_skill_gaps: profile_skills
    arg_job_skills,     \* find_skill_gaps: job_requirements
    arg_weaknesses,     \* _generate_recommendations: weaknesses
    arg_raw_data,       \* _process_apify_data: raw_data, the record the scraper receives
    arg_url,            \* _process_apify_data: url
    hash_seed,          \* the process's str hash seed: it fixes the order of list(set(..))
    called,             \* the operation that has been called ("none" before)
    ret,                \* what it returned (Raised: an exception reached the caller)
    response,           \* the outcome of the scraper's HTTP request
    session_state,      \* streamlit_app.py: st.session_state
    app,                \* app2.py: the fields of the LinkedInEnhancerGradio object
    memory,             \* orchestrator.py: the sessions held by self.memory
    steps               \* orchestrator.py: the steps the last enhance_profile began

\* the arguments, which no call changes
args == <<arg_profile, arg_job, arg_profile_skills, arg_job_skills, arg_weaknesses,
          arg_raw_data, arg_url>>

\* the request's outcome and the objects that live across calls
others == <<response, session_state, app, memory, steps>>

vars == <<args, hash_seed, called, ret, others>>

----------------------------------------------------------------------------
(* Python values *)

Str(s) == [t |-> "str", v |-> s]
None == [t |-> "NoneType", v |-> ""]
PyInt(n) == [t |-> "int", v |-> n]
Float(r) == [t |-> "float", v |-> r]
List(l) == [t |-> "list", v |-> l]
Dict(d) == [t |-> "dict", v |-> d]
Raised == [t |-> "exception", v |-> ""]

IsStr(x) == x.t = "str"
IsRaised(x) == x.t = "exception"

\* bool(x)
Truthy(x) ==
    CASE x.t = "str" -> x.v # ""
      [] x.t = "NoneType" -> FALSE
      [] x.t = "int" -> x.v # 0
      [] x.t = "bool" -> x.v
      [] x.t = "list" -> x.v # <<>>
      [] x.t = "dict" -> DOMAIN x.v # {}
      [] OTHER -> TRUE

\* len(x) is defined (anything else raises TypeError)
HasLen(x) == x.t \in {"str", "list", "dict"}

\* d.get(k, default) on a dict modelled as a function from its keys
Get(d, k, default) == IF k \in DOMAIN d THEN d[k] ELSE default

----------------------------------------------------------------------------
(* Characters and strings *)

LOWER == "abcdefghijklmnopqrstuvwxyz"
UPPER == "ABCDEFGHIJKLMNOPQRSTUVWXYZ"
DIGITS == "0123456789"

CharsOf(s) == {SubSeq(s, i, i) : i \in 1..Len(s)}
LowerSet == CharsOf(LOWER)
UpperSet == CharsOf(UPPER)
DigitSet == CharsOf(DIGITS)

\* [a-zA-Z], \d, \w and \s of the re module (ASCII inputs)
IsAlpha(c) == c \in LowerSet \/ c \in UpperSet
IsDigit(c) == c \in DigitSet
IsWordChar(c) == IsAlpha(c) \/ IsDigit(c) \/ c = "_"
IsSpace(c) == c = " "

CharAt(s, i) == SubSeq(s, i, i)

LowerOf == [c \in UpperSet |->
              LET i == CHOOSE k \in 1..26 : CharAt(UPPER, k) = c IN CharAt(LOWER, i)]

\* str.lower()
RECURSIVE lower(_)
lower(s) ==
    IF s = "" THEN ""
    ELSE IF Len(s) = 1 THEN (IF s \in UpperSet THEN LowerOf[s] ELSE s)
    ELSE LET h == Len(s) \div 2
         IN lower(SubSeq(s, 1, h)) \o lower(SubSeq(s, h + 1, Len(s)))

\* needle in hay
Contains(hay, needle) ==
    \E h \in {hay}, n \in {needle} :
        \E i \in 1..(Len(h) - Len(n) + 1) : SubSeq(h, i, i + Len(n) - 1) = n

\* sep.join(parts)
RECURSIVE Join(_, _)
Join(sep, parts) ==
    IF parts = <<>> THEN ""
    ELSE IF Len(parts) = 1 THEN parts[1]
    ELSE LET half == Len(parts) \div 2
         IN Join(sep, SubSeq(parts, 1, half)) \o sep
            \o Join(sep, SubSeq(parts, half + 1, Len(parts)))

\* \b holds between positions i-1 and i of s (1-based, i in 1..Len(s)+1)
Boundary(s, i) ==
    LET before == i > 1 /\ IsWordChar(CharAt(s, i - 1))
        after == i <= Len(s) /\ IsWordChar(CharAt(s, i))
    IN before # after

\* the end of the maximal run of letters that starts at i
AlphaRunEnd(s, i) ==
    CHOOSE j \in i..Len(s) :
        /\ \A q \in (i + 1)..j : IsAlpha(CharAt(s, q))
        /\ j = Len(s) \/ ~IsAlpha(CharAt(s, j + 1))

\* the start positions of the matches of r'\b[a-zA-Z]{k,}\b' in s: a match starts
\* at a word boundary, takes the letters greedily and must end at a word boundary
\* (giving letters back never reaches one, so a run that fails holds no match)
WordMatchStarts(s, k) ==
    {i \in 1..Len(s) :
        /\ IsAlpha(CharAt(s, i)) /\ Boundary(s, i)
        /\ LET j == AlphaRunEnd(s, i) IN j - i + 1 >= k /\ Boundary(s, j + 1)}

\* the elements of a set of integers in increasing order
SortedSeq(S) ==
    LET Sorted(T) ==
            [n \in 1..Cardinality(T) |-> CHOOSE i \in T : Cardinality({q \in T : q <= i}) = n]
    IN CHOOSE seq \in {Sorted(T) : T \in {S}} : TRUE

\* re.findall(r'\b[a-zA-Z]{k,}\b', s)
FindWords(s, k) ==
    LET starts == SortedSeq(WordMatchStarts(s, k))
    IN [n \in 1..Len(starts) |-> SubSeq(s, starts[n], AlphaRunEnd(s, starts[n]))]

\* re.search(r'\d+', text) is not None
HasDigit(text) == \E i \in 1..Len(text) : IsDigit(CharAt(text, i))

Range(seq) == {seq[i] : i \in 1..Len(seq)}

\* the element of a set of one element
Only(S) == CHOOSE x \in S : TRUE

\* the elements of seq without repetition, in order of first occurrence
Distinct(seq) ==
    LET firsts == SortedSeq({i \in 1..Len(seq) : \A j \in 1..(i - 1) : seq[j] # seq[i]})
    IN [n \in 1..Len(firsts) |-> seq[firsts[n]]]

Count(seq, x) == Cardinality({i \in 1..Len(seq) : seq[i] = x})

Take(seq, n) == SubSeq(seq, 1, IF n < Len(seq) THEN n ELSE Len(seq))

----------------------------------------------------------------------------
(* Numbers: a Python float is the exact rational n/d, d > 0, in lowest terms *)

RECURSIVE GCD(_, _)
GCD(a, b) == IF b = 0 THEN a ELSE GCD(b, a % b)

Abs(x) == IF x < 0 THEN -x ELSE x

Rat(n, d) ==
    LET g == GCD(Abs(n), Abs(d))
        sgn == IF d < 0 THEN -1 ELSE 1
    IN [n |-> sgn * (n \div g), d |-> sgn * (d \div g)]

R(k) == [n |-> k, d |-> 1]
RAdd(a, b) == Rat(a.n * b.d + b.n * a.d, a.d * b.d)
RMul(a, b) == Rat(a.n * b.n, a.d * b.d)
RDiv(a, b) == Rat(a.n * b.d, a.d * b.n)
RLt(a, b) == a.n * b.d < b.n * a.d
RLe(a, b) == a.n * b.d <= b.n * a.d
RMin(a, b) == IF RLe(b, a) THEN b ELSE a

\* round(x, 2): to the nearest hundredth, an exact tie to the even one
Round2(x) ==
    LET num == x.n * 100
        q == num \div x.d
        rem == num % x.d
        up == 2 * rem > x.d \/ (2 * rem = x.d /\ q % 2 = 1)
    IN Rat(IF up THEN q + 1 ELSE q, 100)

----------------------------------------------------------------------------
(* agents/analyzer_agent.py: AnalyzerAgent.  Every operator returns a tagged    *)
(* Python value, or Raised when the Python function raises.                     *)

B(b) == IF b THEN 1 ELSE 0

\* len(x) of a value that has one
PyLen(x) == IF x.t = "dict" THEN Cardinality(DOMAIN x.v) ELSE Len(x.v)

\* profile_data.get(k, default); profile_data is a non-empty dict at every call
PGet(profile_data, k, default) == Get(profile_data.v, k, default)

action_words ==
    <<"led", "managed", "developed", "created", "implemented", "designed",
      "built", "improved", "increased", "reduced", "optimized", "delivered",
      "achieved", "launched", "established", "coordinated", "executed">>

tech_keywords ==
    <<"python", "javascript", "react", "node.js", "sql", "mongodb",
      "aws", "docker", "kubernetes", "git", "agile", "scrum">>

_empty_analysis ==
    Dict([completeness_score |-> R(0),
          keyword_analysis |-> [found_keywords |-> <<>>, missing_keywords |-> <<>>,
                                keyword_density |-> 0],
          content_quality |-> [headline_length |-> 0, about_length |-> 0,
                               has_quantified_achievements |-> FALSE,
                               uses_action_words |-> FALSE],
          strengths |-> <<>>,
          weaknesses |-> <<"Profile data not available">>,
          job_match_score |-> R(0),
          recommendations |-> <<"Please provide valid profile data">>,
          overall_rating |-> "Unknown"])

\* _calculate_completeness with the first about threshold written >= 50
_calculate_completeness_ge50(profile_data) ==
    LET about == PGet(profile_data, "about", Str(""))
        experience == PGet(profile_data, "experience", List(<<>>))
        skills == PGet(profile_data, "skills", List(<<>>))
        score ==
            B(Truthy(PGet(profile_data, "name", None)))
          + B(Truthy(PGet(profile_data, "headline", None)))
          + B(Truthy(about) /\ PyLen(about) >= 50)
          + B(Truthy(about) /\ PyLen(about) > 200)
          + B(PyLen(experience) >= 1)
          + B(PyLen(experience) >= 2)
          + B(Truthy(PGet(profile_data, "education", None)))
          + B(PyLen(skills) >= 5)
          + B(PyLen(skills) >= 10)
          + B(Truthy(PGet(profile_data, "location", None)))
        total_points == 10
    IN IF (Truthy(about) /\ ~HasLen(about)) \/ ~HasLen(experience) \/ ~HasLen(skills)
       THEN Raised
       ELSE Float(RMul(RDiv(R(score), R(total_points)), R(100)))

_calculate_completeness(profile_data) ==
    LET about == PGet(profile_data, "about", Str(""))
        experience == PGet(profile_data, "experience", List(<<>>))
        skills == PGet(profile_data, "skills", List(<<>>))
        score ==
            B(Truthy(PGet(profile_data, "name", None)))
          + B(Truthy(PGet(profile_data, "headline", None)))
          + B(Truthy(about) /\ PyLen(about) > 50)
          + B(Truthy(about) /\ PyLen(about) > 200)
          + B(PyLen(experience) >= 1)
          + B(PyLen(experience) >= 2)
          + B(Truthy(PGet(profile_data, "education", None)))
          + B(PyLen(skills) >= 5)
          + B(PyLen(skills) >= 10)
          + B(Truthy(PGet(profile_data, "location", None)))
        total_points == 10
    IN IF (Truthy(about) /\ ~HasLen(about)) \/ ~HasLen(experience) \/ ~HasLen(skills)
       THEN Raised
       ELSE Float(RMul(RDiv(R(score), R(total_points)), R(100)))

_extract_all_text(profile_data) ==
    LET experience == PGet(profile_data, "experience", List(<<>>))
        skills == PGet(profile_data, "skills", List(<<>>))
        exp_ok == experience.t = "list"
                  /\ \A i \in 1..Len(experience.v) : experience.v[i].t = "dict"
        exp_parts == [n \in 1..(2 * Len(experience.v)) |->
                        LET exp == experience.v[(n + 1) \div 2].v
                        IN IF n % 2 = 1 THEN Get(exp, "description", Str(""))
                                        ELSE Get(exp, "title", Str(""))]
        text_parts == <<PGet(profile_data, "headline", Str("")),
                        PGet(profile_data, "about", Str(""))>>
                      \o exp_parts \o skills.v
    IN IF ~exp_ok \/ skills.t # "list" THEN Raised
       ELSE IF \E i \in 1..Len(text_parts) : ~IsStr(text_parts[i]) THEN Raised
       ELSE Str(Join(" ", [i \in 1..Len(text_parts) |-> text_parts[i].v]))

\* Counter(tokens).most_common(n): by decreasing count, equal counts in order of
\* first occurrence
most_common(tokens, n) ==
    LET keys == Distinct(tokens)
        rank(i) == 1 + Cardinality({j \in 1..Len(keys) :
                        \/ Count(tokens, keys[j]) > Count(tokens, keys[i])
                        \/ Count(tokens, keys[j]) = Count(tokens, keys[i]) /\ j < i})
        ordered == [r \in 1..Len(keys) |-> keys[CHOOSE i \in 1..Len(keys) : rank(i) = r]]
    IN Take(ordered, n)

\* [x for x in seq if x in kept]: the elements of seq that are in the set kept
Filter(seq, kept) ==
    LET At(s, idx) == [n \in 1..Len(idx) |-> s[idx[n]]]
        Select(s, k) ==
            Only({At(s, idx) : idx \in {SortedSeq({i \in 1..Len(s) : s[i] \in k})}})
    IN Only({Select(s, k) : s \in {seq}, k \in {kept}})

\* _analyze_keywords reporting the three-letter tokens too
_analyze_keywords_any_length(profile_data, job_description) ==
    LET text == _extract_all_text(profile_data)
        profile_text == lower(text.v)
        InText(keyword) == Contains(profile_text, lower(keyword))
        found_keywords == Filter(tech_keywords, {k \in Range(tech_keywords) : InText(k)})
        job_keywords == FindWords(lower(job_description), 3)
        Missing(keyword) == ~Contains(profile_text, keyword)
        missing_keywords ==
            IF job_description # ""
            THEN Filter(most_common(job_keywords, 10),
                        {k \in Range(job_keywords) : Missing(k)})
            ELSE <<>>
    IN IF IsRaised(text) THEN Raised
       ELSE Dict([found_keywords |-> found_keywords,
                  missing_keywords |-> Take(missing_keywords, 5),
                  keyword_density |-> Len(found_keywords)])

\* _analyze_keywords returning every missing keyword of the ten most common
_analyze_keywords_untruncated(profile_data, job_description) ==
    LET text == _extract_all_text(profile_data)
        profile_text == lower(text.v)
        InText(keyword) == Contains(profile_text, lower(keyword))
        found_keywords == Filter(tech_keywords, {k \in Range(tech_keywords) : InText(k)})
        job_keywords == FindWords(lower(job_description), 3)
        Missing(keyword) == ~Contains(profile_text, keyword) /\ Len(keyword) > 3
        missing_keywords ==
            IF job_description # ""
            THEN Filter(most_common(job_keywords, 10),
                        {k \in Range(job_keywords) : Missing(k)})
            ELSE <<>>
    IN IF IsRaised(text) THEN Raised
       ELSE Dict([found_keywords |-> found_keywords,
                  missing_keywords |-> missing_keywords,
                  keyword_density |-> Len(found_keywords)])

_analyze_keywords(profile_data, job_description) ==
    LET text == _extract_all_text(profile_data)
        profile_text == lower(text.v)
        InText(keyword) == Contains(profile_text, lower(keyword))
        found_keywords == Filter(tech_keywords, {k \in Range(tech_keywords) : InText(k)})
        job_keywords == FindWords(lower(job_description), 3)
        Missing(keyword) == ~Contains(profile_text, keyword) /\ Len(keyword) > 3
        missing_keywords ==
            IF job_description # ""
            THEN Filter(most_common(job_keywords, 10),
                        {k \in Range(job_keywords) : Missing(k)})
            ELSE <<>>
    IN IF IsRaised(text) THEN Raised
       ELSE Dict([found_keywords |-> found_keywords,
                  missing_keywords |-> Take(missing_keywords, 5),
                  keyword_density |-> Len(found_keywords)])

\* bool(re.search(r'\d+', text)); a text that is no str raises TypeError, which
\* the callers below report as Raised
_has_numbers(text) == IF IsStr(text) THEN HasDigit(text.v) ELSE FALSE

\* any(word in text.lower() for word in self.action_words)
_has_action_words(text) ==
    IF IsStr(text)
    THEN LET text_lower == lower(text.v)
         IN \E i \in 1..Len(action_words) : Contains(text_lower, action_words[i])
    ELSE FALSE

_assess_content_quality(profile_data) ==
    LET about_section == PGet(profile_data, "about", Str(""))
        headline == PGet(profile_data, "headline", Str(""))
    IN IF ~HasLen(headline) \/ ~HasLen(about_section) \/ ~IsStr(about_section)
       THEN Raised
       ELSE Dict([headline_length |-> PyLen(headline),
                  about_length |-> PyLen(about_section),
                  has_quantified_achievements |-> _has_numbers(about_section),
                  uses_action_words |-> _has_action_words(about_section)])

_identify_strengths(profile_data) ==
    LET experience == PGet(profile_data, "experience", List(<<>>))
        skills == PGet(profile_data, "skills", List(<<>>))
        about == PGet(profile_data, "about", Str(""))
    IN IF ~HasLen(experience) \/ ~HasLen(skills) \/ ~HasLen(about) THEN Raised
       ELSE List((IF PyLen(experience) >= 3
                  THEN <<"Good work experience history">> ELSE <<>>)
              \o (IF PyLen(skills) >= 10
                  THEN <<"Comprehensive skills list">> ELSE <<>>)
              \o (IF PyLen(about) > 200
                  THEN <<"Detailed about section">> ELSE <<>>))

\* _identify_weaknesses asking for an about text of more than 100 characters
_identify_weaknesses_about_le_100(profile_data) ==
    LET about == PGet(profile_data, "about", Str(""))
        skills == PGet(profile_data, "skills", List(<<>>))
    IN IF (Truthy(PGet(profile_data, "about", None)) /\ ~HasLen(about))
          \/ ~HasLen(skills) \/ ~IsStr(about)
       THEN Raised
       ELSE List((IF ~Truthy(PGet(profile_data, "about", None)) \/ PyLen(about) <= 100
                  THEN <<"About section needs improvement">> ELSE <<>>)
              \o (IF PyLen(skills) < 5
                  THEN <<"Limited skills listed">> ELSE <<>>)
              \o (IF ~_has_numbers(about)
                  THEN <<"Lacks quantified achievements">> ELSE <<>>))

_identify_weaknesses(profile_data) ==
    LET about == PGet(profile_data, "about", Str(""))
        skills == PGet(profile_data, "skills", List(<<>>))
    IN IF (Truthy(PGet(profile_data, "about", None)) /\ ~HasLen(about))
          \/ ~HasLen(skills) \/ ~IsStr(about)
       THEN Raised
       ELSE List((IF ~Truthy(PGet(profile_data, "about", None)) \/ PyLen(about) < 100
                  THEN <<"About section needs improvement">> ELSE <<>>)
              \o (IF PyLen(skills) < 5
                  THEN <<"Limited skills listed">> ELSE <<>>)
              \o (IF ~_has_numbers(about)
                  THEN <<"Lacks quantified achievements">> ELSE <<>>))

\* _calculate_job_match taking the job's tokens of three letters and more
_calculate_job_match_three_letters(profile_data, job_description) ==
    LET text == _extract_all_text(profile_data)
        profile_text == lower(text.v)
        job_text == lower(job_description)
        job_keywords == Range(FindWords(job_text, 3))
        matches == Cardinality({keyword \in job_keywords : Contains(profile_text, keyword)})
    IN IF job_description = "" THEN Float(R(0))
       ELSE IF IsRaised(text) THEN Raised
       ELSE IF job_keywords # {}
       THEN Float(RMin(RMul(RDiv(R(matches), R(Cardinality(job_keywords))), R(100)),
                       R(100)))
       ELSE Float(R(0))

_calculate_job_match(profile_data, job_description) ==
    LET text == _extract_all_text(profile_data)
        profile_text == lower(text.v)
        job_text == lower(job_description)
        job_keywords == Range(FindWords(job_text, 4))
        matches == Cardinality({keyword \in job_keywords : Contains(profile_text, keyword)})
    IN IF job_description = "" THEN Float(R(0))
       ELSE IF IsRaised(text) THEN Raised
       ELSE IF job_keywords # {}
       THEN Float(RMin(RMul(RDiv(R(matches), R(Cardinality(job_keywords))), R(100)),
                       R(100)))
       ELSE Float(R(0))

RECURSIVE RecommendationsFor(_)
RecommendationsFor(weaknesses) ==
    IF weaknesses = <<>> THEN <<>>
    ELSE LET weakness == lower(Head(weaknesses))
         IN (IF Contains(weakness, "about section")
             THEN <<"Add a compelling about section with 150-300 words describing your expertise">>
             ELSE IF Contains(weakness, "skills")
             THEN <<"Add more relevant skills to reach at least 10 skills">>
             ELSE IF Contains(weakness, "quantified")
             THEN <<"Include specific numbers and metrics in your descriptions">>
             ELSE <<>>)
            \o RecommendationsFor(Tail(weaknesses))

\* _generate_recommendations testing "skills" before "about section"
RECURSIVE RecommendationsSkillsFirst(_)
RecommendationsSkillsFirst(weaknesses) ==
    IF weaknesses = <<>> THEN <<>>
    ELSE LET weakness == lower(Head(weaknesses))
         IN (IF Contains(weakness, "skills")
             THEN <<"Add more relevant skills to reach at least 10 skills">>
             ELSE IF Contains(weakness, "about section")
             THEN <<"Add a compelling about section with 150-300 words describing your expertise">>
             ELSE IF Contains(weakness, "quantified")
             THEN <<"Include specific numbers and metrics in your descriptions">>
             ELSE <<>>)
            \o RecommendationsSkillsFirst(Tail(weaknesses))

_generate_recommendations_skills_first(profile_data, weaknesses) ==
    List(RecommendationsSkillsFirst(weaknesses))

_generate_recommendations(profile_data, weaknesses) ==
    List(RecommendationsFor(weaknesses))

\* _calculate_overall_rating that rates "Excellent" from 70 points on
_calculate_overall_rating_excellent_from_70(completeness, content_quality, job_match) ==
    LET score ==
            RAdd(RAdd(RMul(completeness, Rat(4, 10)),
                      R(10 * (B(content_quality.has_quantified_achievements)
                              + B(content_quality.uses_action_words)
                              + B(content_quality.about_length > 150)))),
                 IF RLt(R(0), job_match) THEN RMul(job_match, Rat(3, 10)) ELSE R(0))
    IN IF RLe(R(70), score) THEN "Excellent"
       ELSE IF RLe(R(60), score) THEN "Good"
       ELSE IF RLe(R(40), score) THEN "Fair"
       ELSE "Needs Improvement"

\* _calculate_overall_rating with the about bonus from 100 characters on
_calculate_overall_rating_about_100(completeness, content_quality, job_match) ==
    LET score ==
            RAdd(RAdd(RMul(completeness, Rat(4, 10)),
                      R(10 * (B(content_quality.has_quantified_achievements)
                              + B(content_quality.uses_action_words)
                              + B(content_quality.about_length > 100)))),
                 IF RLt(R(0), job_match) THEN RMul(job_match, Rat(3, 10)) ELSE R(0))
    IN IF RLe(R(80), score) THEN "Excellent"
       ELSE IF RLe(R(60), score) THEN "Good"
       ELSE IF RLe(R(40), score) THEN "Fair"
       ELSE "Needs Improvement"

_calculate_overall_rating(completeness, content_quality, job_match) ==
    LET score ==
            RAdd(RAdd(RMul(completeness, Rat(4, 10)),
                      R(10 * (B(content_quality.has_quantified_achievements)
                              + B(content_quality.uses_action_words)
                              + B(content_quality.about_length > 150)))),
                 IF RLt(R(0), job_match) THEN RMul(job_match, Rat(3, 10)) ELSE R(0))
    IN IF RLe(R(80), score) THEN "Excellent"
       ELSE IF RLe(R(60), score) THEN "Good"
       ELSE IF RLe(R(40), score) THEN "Fair"
       ELSE "Needs Improvement"

\* the body of the try block of analyze_profile
AnalyzeBody(profile_data, job_description) ==
    LET completeness_score == _calculate_completeness(profile_data)
        keyword_analysis == _analyze_keywords(profile_data, job_description)
        content_quality == _assess_content_quality(profile_data)
        strengths == _identify_strengths(profile_data)
        weaknesses == _identify_weaknesses(profile_data)
        job_match_score ==
            IF job_description # ""
            THEN _calculate_job_match(profile_data, job_description)
            ELSE Float(R(0))
    IN IF \/ IsRaised(completeness_score) \/ IsRaised(keyword_analysis)
          \/ IsRaised(content_quality) \/ IsRaised(strengths)
          \/ IsRaised(weaknesses) \/ IsRaised(job_match_score)
       THEN Raised
       ELSE Dict([completeness_score |-> completeness_score.v,
                  keyword_analysis |-> keyword_analysis.v,
                  content_quality |-> content_quality.v,
                  strengths |-> strengths.v,
                  weaknesses |-> weaknesses.v,
                  job_match_score |-> job_match_score.v,
                  recommendations |->
                      _generate_recommendations(profile_data, weaknesses.v).v,
                  overall_rating |->
                      _calculate_overall_rating(completeness_score.v,
                                                content_quality.v,
                                                job_match_score.v)])

\* analyze_profile testing the profile against None only
analyze_profile_none_check(profile_data, job_description) ==
    IF profile_data = None THEN _empty_analysis
    ELSE LET result == AnalyzeBody(profile_data, job_description)
         IN IF IsRaised(result) THEN _empty_analysis ELSE result

\* analyze_profile without its exception handler
analyze_profile_no_handler(profile_data, job_description) ==
    IF ~Truthy(profile_data) THEN _empty_analysis
    ELSE AnalyzeBody(profile_data, job_description)

\* try: ... except Exception: return self._empty_analysis()
analyze_profile(profile_data, job_description) ==
    IF ~Truthy(profile_data) THEN _empty_analysis
    ELSE LET result == AnalyzeBody(profile_data, job_description)
         IN IF IsRaised(result) THEN _empty_analysis ELSE result

----------------------------------------------------------------------------
(* utils/job_matcher.py: JobMatcher.  Its functions have no exception handler;  *)
(* they are modelled on well-formed profiles (str fields, lists of dicts).      *)

\* str(n) of an int n >= 0
RECURSIVE IntToStr(_)
IntToStr(n) ==
    IF n < 10 THEN CharAt(DIGITS, n + 1)
    ELSE IntToStr(n \div 10) \o CharAt(DIGITS, (n % 10) + 1)

\* int(s) of a run of digits
RECURSIVE StrToInt(_)
StrToInt(s) ==
    IF s = "" THEN 0
    ELSE 10 * StrToInt(SubSeq(s, 1, Len(s) - 1))
         + (CHOOSE d \in 0..9 : CharAt(DIGITS, d + 1) = CharAt(s, Len(s)))

\* the keys of the modelled dicts in insertion order
KeyOrder ==
    <<"name", "headline", "location", "about", "experience", "education", "skills",
      "title", "description", "duration_info", "degree", "field", "duration_months",
      "subtitle", "caption", "metadata", "subComponents", "text">>

\* list(d.keys())
Keys(d) == Filter(KeyOrder, DOMAIN d)

\* str(x), and repr(x) inside a container
RECURSIVE PyStr(_, _)
PyStr(x, quoted) ==
    CASE x.t = "str" -> IF quoted THEN "'" \o x.v \o "'" ELSE x.v
      [] x.t = "NoneType" -> "None"
      [] x.t = "int" -> IntToStr(x.v)
      [] x.t = "list" ->
            "[" \o Join(", ", [i \in 1..Len(x.v) |-> PyStr(x.v[i], TRUE)]) \o "]"
      [] x.t = "dict" ->
            LET ks == Keys(x.v)
            IN "{" \o Join(", ", [i \in 1..Len(ks) |->
                        "'" \o ks[i] \o "': " \o PyStr(x.v[ks[i]], TRUE)]) \o "}"

\* weight_config with the weights of skills and experience exchanged
weight_config_exchanged == [skills |-> Rat(3, 10), experience |-> Rat(4, 10),
                            keywords |-> Rat(2, 10), education |-> Rat(1, 10)]

weight_config == [skills |-> Rat(4, 10), experience |-> Rat(3, 10),
                  keywords |-> Rat(2, 10), education |-> Rat(1, 10)]

skill_synonyms ==
    <<[main |-> "javascript", synonyms |-> {"js", "ecmascript", "node.js", "nodejs"}],
      [main |-> "python", synonyms |-> {"py", "django", "flask", "fastapi"}],
      [main |-> "react", synonyms |-> {"reactjs", "react.js"}],
      [main |-> "angular", synonyms |-> {"angularjs", "angular.js"}],
      [main |-> "machine learning", synonyms |-> {"ml", "ai", "artificial intelligence"}],
      [main |-> "database", synonyms |-> {"db", "sql", "mysql", "postgresql", "mongodb"}]>>

\* _are_skills_similar looking the skills up among the synonyms only, not the
\* main skill of the group
_are_skills_similar_no_main(skill1, skill2) ==
    LET skill1_lower == lower(skill1)
        skill2_lower == lower(skill2)
    IN \/ \E i \in 1..Len(skill_synonyms) :
            LET synonyms == skill_synonyms[i].synonyms
            IN skill1_lower \in synonyms /\ skill2_lower \in synonyms
       \/ Contains(skill2_lower, skill1_lower)
       \/ Contains(skill1_lower, skill2_lower)

_are_skills_similar(skill1, skill2) ==
    LET skill1_lower == lower(skill1)
        skill2_lower == lower(skill2)
    IN \/ \E i \in 1..Len(skill_synonyms) :
            LET main_skill == skill_synonyms[i].main
                synonyms == skill_synonyms[i].synonyms
            IN /\ skill1_lower = main_skill \/ skill1_lower \in synonyms
               /\ skill2_lower = main_skill \/ skill2_lower \in synonyms
       \/ Contains(skill2_lower, skill1_lower)
       \/ Contains(skill1_lower, skill2_lower)

\* profile_skills, job_requirements: lists of str
find_skill_gaps(profile_skills, job_requirements) ==
    LET profile_skills_lower == [i \in 1..Len(profile_skills) |-> lower(profile_skills[i])]
        job_skills_lower == [i \in 1..Len(job_requirements) |-> lower(job_requirements[i])]
        Matching(job_skill) ==
            \/ job_skill \in Range(profile_skills_lower)
            \/ \E i \in 1..Len(profile_skills_lower) :
                    _are_skills_similar(profile_skills_lower[i], job_skill)
        matching_skills ==
            Filter(job_skills_lower, {s \in Range(job_skills_lower) : Matching(s)})
        missing_skills ==
            Filter(job_skills_lower, {s \in Range(job_skills_lower) : ~Matching(s)})
        divisor == IF Len(job_skills_lower) > 1 THEN Len(job_skills_lower) ELSE 1
    IN [matching_skills |-> matching_skills,
        missing_skills |-> missing_skills,
        match_percentage |-> RMul(RDiv(R(Len(matching_skills)), R(divisor)), R(100))]

\* one alternative of a skill pattern: pre, an optional character (opt is "dot":
\* \.?, "any": .?, "none"), post
Alt(pre, opt, post) == [pre |-> pre, opt |-> opt, post |-> post]
Word(w) == Alt(w, "none", "")

skill_patterns ==
    <<<<Word("python"), Word("javascript"), Word("java"), Word("react"), Word("angular"),
        Alt("node", "dot", "js"), Word("sql"), Word("aws"), Word("docker"),
        Word("kubernetes")>>,
      <<Word("machine learning"), Word("ai"), Word("data science"), Word("devops"),
        Alt("full", "any", "stack")>>,
      <<Word("project management"), Word("agile"), Word("scrum"), Word("leadership")>>>>

\* text[i..] starts with w (lower case, not empty), ignoring case
StartsWithAt(text, i, w) ==
    /\ i + Len(w) - 1 <= Len(text)
    /\ lower(CharAt(text, i)) = CharAt(w, 1)
    /\ lower(SubSeq(text, i, i + Len(w) - 1)) = w

\* the length of the match of alternative alt at position i followed by \b, 0 if
\* none; the optional character is taken first (greedy), then left out
AltMatchLen(text, i, alt) ==
    LET n == Len(alt.pre)
        m == Len(alt.post)
        with ==
            /\ alt.opt # "none"
            /\ StartsWithAt(text, i, alt.pre)
            /\ i + n <= Len(text)
            /\ alt.opt = "dot" => CharAt(text, i + n) = "."
            /\ StartsWithAt(text, i + n + 1, alt.post)
            /\ Boundary(text, i + n + 1 + m)
        without ==
            /\ StartsWithAt(text, i, alt.pre \o alt.post)
            /\ Boundary(text, i + n + m)
    IN IF with THEN n + 1 + m ELSE IF without THEN n + m ELSE 0

\* the length of the match of r'\b(alt1|alt2|...)\b' at position i, 0 if none: the
\* first alternative that matches
PatternMatchLen(text, i, alts) ==
    IF ~Boundary(text, i) \/ \A a \in 1..Len(alts) : AltMatchLen(text, i, alts[a]) = 0
    THEN 0
    ELSE LET a == CHOOSE a \in 1..Len(alts) :
                    /\ AltMatchLen(text, i, alts[a]) > 0
                    /\ \A b \in 1..(a - 1) : AltMatchLen(text, i, alts[b]) = 0
         IN AltMatchLen(text, i, alts[a])

\* re.findall(pattern, text, re.IGNORECASE): a match begins and ends at a word
\* boundary and no alternative begins at a boundary inside another, so matches
\* never overlap and every position that matches is reported
FindSkills(text, alts) ==
    LET starts == SortedSeq({i \in 1..Len(text) : PatternMatchLen(text, i, alts) > 0})
    IN [n \in 1..Len(starts) |->
            SubSeq(text, starts[n], starts[n] + PatternMatchLen(text, starts[n], alts) - 1)]

\* the first position >= p of text that holds no space
SkipSpaces(text, p) ==
    CHOOSE q \in p..(Len(text) + 1) :
        /\ q = Len(text) + 1 \/ ~IsSpace(CharAt(text, q))
        /\ \A r \in p..(q - 1) : IsSpace(CharAt(text, r))

\* the end of the maximal run of digits that starts at i
DigitRunEnd(text, i) ==
    CHOOSE j \in i..Len(text) :
        /\ \A q \in (i + 1)..j : IsDigit(CharAt(text, q))
        /\ j = Len(text) \/ ~IsDigit(CharAt(text, j + 1))

\* r'(\d+)\+?\s*years?\s*(?:of\s*)?experience' (re.IGNORECASE) matches at i, the
\* start of a run of digits; every optional part that is present has to be taken
\* for the rest to match
ExpMatchAt(text, i) ==
    LET digits_end == DigitRunEnd(text, i)
        p1 == IF StartsWithAt(text, digits_end + 1, "+") THEN digits_end + 2
              ELSE digits_end + 1
        p2 == SkipSpaces(text, p1)
        p3 == IF StartsWithAt(text, p2, "years") THEN p2 + 5 ELSE p2 + 4
        p4 == SkipSpaces(text, p3)
        p5 == IF StartsWithAt(text, p4, "of") THEN SkipSpaces(text, p4 + 2) ELSE p4
    IN /\ StartsWithAt(text, p2, "year")
       /\ StartsWithAt(text, p5, "experience")

\* int(exp_matches[0]) if exp_matches else 0: the leftmost match starts at the
\* first digit of a run
ExperienceYears(text) ==
    LET starts == {i \in 1..Len(text) :
                      /\ IsDigit(CharAt(text, i))
                      /\ i = 1 \/ ~IsDigit(CharAt(text, i - 1))
                      /\ ExpMatchAt(text, i)}
    IN IF starts = {} THEN 0
       ELSE LET i == CHOOSE i \in starts : \A q \in starts : i <= q
            IN StrToInt(SubSeq(text, i, DigitRunEnd(text, i)))

stop_words == {"the", "and", "for", "with", "you", "will", "are", "have"}

\* list(set(seq)): the distinct elements in an order that the hash seed of the
\* process fixes; here the order of first occurrence rotated by the seed
list_of_set(seq) ==
    LET keys == Distinct(seq)
        n == Len(keys)
    IN [i \in 1..n |-> keys[((i - 1 + hash_seed) % n) + 1]]

_parse_job_requirements(job_description) ==
    LET found == FindSkills(job_description, skill_patterns[1])
                 \o FindSkills(job_description, skill_patterns[2])
                 \o FindSkills(job_description, skill_patterns[3])
        skills == [i \in 1..Len(found) |-> lower(found[i])]
        words == FindWords(job_description, 3)
        words_lower == [i \in 1..Len(words) |-> lower(words[i])]
        keywords == Filter(words_lower, Range(words_lower) \ stop_words)
    IN [skills |-> list_of_set(skills),
        keywords |-> list_of_set(keywords),
        experience_years |-> ExperienceYears(job_description),
        education_level |-> "",
        industry |-> "",
        role_type |-> ""]

\* the str values of a list of Str
StrList(l) == [i \in 1..Len(l.v) |-> l.v[i].v]

\* _calculate_skills_match that gives no credit when the job names no skill
_calculate_skills_match_no_credit(profile_skills, job_skills) ==
    IF job_skills = <<>>
    THEN [score |-> R(0),
          details |-> [matching_skills |-> <<>>, missing_skills |-> <<>>]]
    ELSE LET skill_gap_analysis == find_skill_gaps(profile_skills, job_skills)
         IN [score |-> skill_gap_analysis.match_percentage,
             details |-> skill_gap_analysis]

_calculate_skills_match(profile_skills, job_skills) ==
    IF job_skills = <<>>
    THEN [score |-> R(100),
          details |-> [matching_skills |-> <<>>, missing_skills |-> <<>>]]
    ELSE LET skill_gap_analysis == find_skill_gaps(profile_skills, job_skills)
         IN [score |-> skill_gap_analysis.match_percentage,
             details |-> skill_gap_analysis]

\* round(x, 1)
Round1(x) == LET y == Round2(Rat(x.n, x.d * 10)) IN Rat(y.n * 10, y.d)

RECURSIVE SumMonths(_)
SumMonths(profile_experience) ==
    IF profile_experience = <<>> THEN 0
    ELSE LET exp == Head(profile_experience).v
             duration_info == Get(exp, "duration_info", Dict(<<>>))
             months == Get(duration_info.v, "duration_months", None)
         IN (IF Truthy(months) THEN months.v ELSE 0) + SumMonths(Tail(profile_experience))

\* any(keyword in text for keyword in keywords)
AnyIn(keywords, text) == \E i \in 1..Len(keywords) : Contains(text, keywords[i])

\* _calculate_experience_match without the cap of the experience ratio at 1
_calculate_experience_match_uncapped(profile_experience, job_requirements) ==
    LET total_years == Rat(SumMonths(profile_experience), 12)
        job_keywords == job_requirements.keywords
        Relevant(exp) ==
            LET role_text == lower(PyStr(Get(exp.v, "title", Str("")), FALSE) \o " "
                                   \o PyStr(Get(exp.v, "description", Str("")), FALSE))
            IN AnyIn(Take(job_keywords, 10), role_text)
        relevant_roles ==
            Len(Filter(profile_experience,
                       {exp \in Range(profile_experience) : Relevant(exp)}))
        count == IF Len(profile_experience) > 1 THEN Len(profile_experience) ELSE 1
        score ==
            IF job_requirements.experience_years > 0
            THEN LET exp_ratio == RDiv(total_years, R(job_requirements.experience_years))
                 IN RAdd(RMul(exp_ratio, R(70)),
                         RMul(Rat(relevant_roles, count), R(30)))
            ELSE R(80)
    IN [score |-> Round2(score),
        details |-> [relevant_roles |-> relevant_roles,
                     total_experience |-> Round1(total_years),
                     required_experience |-> job_requirements.experience_years]]

_calculate_experience_match(profile_experience, job_requirements) ==
    LET total_years == Rat(SumMonths(profile_experience), 12)
        job_keywords == job_requirements.keywords
        Relevant(exp) ==
            LET role_text == lower(PyStr(Get(exp.v, "title", Str("")), FALSE) \o " "
                                   \o PyStr(Get(exp.v, "description", Str("")), FALSE))
            IN AnyIn(Take(job_keywords, 10), role_text)
        relevant_roles ==
            Len(Filter(profile_experience,
                       {exp \in Range(profile_experience) : Relevant(exp)}))
        count == IF Len(profile_experience) > 1 THEN Len(profile_experience) ELSE 1
        score ==
            IF job_requirements.experience_years > 0
            THEN LET exp_ratio == RMin(RDiv(total_years,
                                            R(job_requirements.experience_years)), R(1))
                 IN RAdd(RMul(exp_ratio, R(70)),
                         RMul(Rat(relevant_roles, count), R(30)))
            ELSE R(80)
    IN [score |-> Round2(score),
        details |-> [relevant_roles |-> relevant_roles,
                     total_experience |-> Round1(total_years),
                     required_experience |-> job_requirements.experience_years]]

\* the text _calculate_keywords_match builds from the values of profile_data
ProfileValuesText(profile_data) ==
    LET ks == Keys(profile_data.v)
        ItemText(item) ==
            IF item.t = "dict"
            THEN LET iks == Keys(item.v)
                 IN " " \o Join(" ", [i \in 1..Len(iks) |-> PyStr(item.v[iks[i]], FALSE)])
            ELSE " " \o PyStr(item, FALSE)
        ValueText(value) ==
            IF value.t = "str" THEN " " \o value.v
            ELSE IF value.t = "list"
            THEN Join("", [i \in 1..Len(value.v) |-> ItemText(value.v[i])])
            ELSE ""
    IN Join("", [i \in 1..Len(ks) |-> ValueText(profile_data.v[ks[i]])])

_calculate_keywords_match(profile_data, job_keywords) ==
    IF job_keywords = <<>>
    THEN [score |-> R(100), details |-> [matched |-> 0, total |-> 0]]
    ELSE LET Result(profile_text) ==
                 LET InProfile(keyword) == Contains(profile_text, lower(keyword))
                     matched_keywords ==
                         Len(Filter(job_keywords,
                                    {k \in Range(job_keywords) : InProfile(k)}))
                     score == RMul(Rat(matched_keywords, Len(job_keywords)), R(100))
                 IN [score |-> Round2(score),
                     details |-> [matched |-> matched_keywords,
                                  total |-> Len(job_keywords),
                                  percentage |-> Round2(score)]]
         IN Only({Result(profile_text) :
                    profile_text \in {lower(ProfileValuesText(profile_data))}})

\* _calculate_education_match with a default score of 50
_calculate_education_match_default_50(profile_education, job_requirements) ==
    LET job_keywords == job_requirements.keywords
        RelevantField(edu) ==
            LET edu_text == lower(PyStr(Get(edu.v, "degree", Str("")), FALSE) \o " "
                                  \o PyStr(Get(edu.v, "field", Str("")), FALSE))
            IN AnyIn(Take(job_keywords, 5), edu_text)
        score ==
            IF profile_education # <<>>
            THEN IF \E i \in 1..Len(profile_education) : RelevantField(profile_education[i])
                 THEN 95 ELSE 85
            ELSE 50
    IN [score |-> R(score),
        details |-> [has_degree |-> Len(profile_education) > 0,
                     degree_count |-> Len(profile_education)]]

\* _calculate_education_match reading the first 10 job keywords
_calculate_education_match_first_10(profile_education, job_requirements) ==
    LET job_keywords == job_requirements.keywords
        RelevantField(edu) ==
            LET edu_text == lower(PyStr(Get(edu.v, "degree", Str("")), FALSE) \o " "
                                  \o PyStr(Get(edu.v, "field", Str("")), FALSE))
            IN AnyIn(Take(job_keywords, 10), edu_text)
        score ==
            IF profile_education # <<>>
            THEN IF \E i \in 1..Len(profile_education) : RelevantField(profile_education[i])
                 THEN 95 ELSE 85
            ELSE 70
    IN [score |-> R(score),
        details |-> [has_degree |-> Len(profile_education) > 0,
                     degree_count |-> Len(profile_education)]]

_calculate_education_match(profile_education, job_requirements) ==
    LET job_keywords == job_requirements.keywords
        RelevantField(edu) ==
            LET edu_text == lower(PyStr(Get(edu.v, "degree", Str("")), FALSE) \o " "
                                  \o PyStr(Get(edu.v, "field", Str("")), FALSE))
            IN AnyIn(Take(job_keywords, 5), edu_text)
        score ==
            IF profile_education # <<>>
            THEN IF \E i \in 1..Len(profile_education) : RelevantField(profile_education[i])
                 THEN 95 ELSE 85
            ELSE 70
    IN [score |-> R(score),
        details |-> [has_degree |-> Len(profile_education) > 0,
                     degree_count |-> Len(profile_education)]]

_generate_match_recommendations(skills_score, experience_score, keywords_score, education_score) ==
       (IF RLt(skills_score.score, R(60))
        THEN <<"Focus on developing missing technical skills">> ELSE <<>>)
    \o (IF RLt(experience_score.score, R(50))
        THEN <<"Highlight more relevant work experience">> ELSE <<>>)
    \o (IF RLt(keywords_score.score, R(40))
        THEN <<"Optimize profile with job-specific keywords">> ELSE <<>>)
    \o (IF RLt(education_score.score, R(60))
        THEN <<"Consider additional certifications or training">> ELSE <<>>)

calculate_match_score(profile_data, job_description) ==
    LET Result(job_requirements) ==
            LET skills_score ==
                    _calculate_skills_match(
                        StrList(PGet(profile_data, "skills", List(<<>>))),
                        job_requirements.skills)
                experience_score ==
                    _calculate_experience_match(
                        PGet(profile_data, "experience", List(<<>>)).v, job_requirements)
                keywords_score ==
                    _calculate_keywords_match(profile_data, job_requirements.keywords)
                education_score ==
                    _calculate_education_match(
                        PGet(profile_data, "education", List(<<>>)).v, job_requirements)
                overall_score ==
                    RAdd(RAdd(RMul(skills_score.score, weight_config.skills),
                              RMul(experience_score.score, weight_config.experience)),
                         RAdd(RMul(keywords_score.score, weight_config.keywords),
                              RMul(education_score.score, weight_config.education)))
            IN [overall_score |-> Round2(overall_score),
                breakdown |-> [skills |-> skills_score,
                               experience |-> experience_score,
                               keywords |-> keywords_score,
                               education |-> education_score],
                recommendations |->
                    _generate_match_recommendations(skills_score, experience_score,
                                                    keywords_score, education_score),
                job_requirements |-> job_requirements]
    IN Only({Result(job_requirements) :
               job_requirements \in {_parse_job_requirements(job_description)}})

\* suggest_profile_improvements(match_analysis)
suggest_profile_improvements(match_analysis) ==
       (IF /\ RLt(match_analysis.breakdown.skills.score, R(70))
           /\ match_analysis.breakdown.skills.details.missing_skills # <<>>
        THEN <<"Add these high-priority skills: "
               \o Join(", ", Take(match_analysis.breakdown.skills.details.missing_skills,
                                  3))>>
        ELSE <<>>)
    \o (IF RLt(match_analysis.breakdown.experience.score, R(60))
        THEN <<"Highlight more relevant experience in your current/previous roles",
               "Add quantified achievements that demonstrate impact">>
        ELSE <<>>)
    \o (IF RLt(match_analysis.breakdown.keywords.score, R(50))
        THEN <<"Incorporate more industry-specific keywords throughout your profile">>
        ELSE <<>>)
    \o (IF RLt(match_analysis.breakdown.education.score, R(40))
        THEN <<"Consider adding relevant certifications or courses">>
        ELSE <<>>)

----------------------------------------------------------------------------
(* agents/scraper_agent.py: ScraperAgent._process_apify_data, which turns the   *)
(* record received from the scraping service into the profile the analyzer and  *)
(* the job matcher read.  The values of the record are str, None, int, list or  *)
(* dict; the function has no exception handler of its own.                      *)

Bool(b) == [t |-> "bool", v |-> b]

\* iter(x) is defined (anything else raises TypeError)
Iterable(x) == x.t \in {"list", "str", "dict"}

\* list(x) of an iterable x
Items(x) ==
    CASE x.t = "list" -> x.v
      [] x.t = "str" -> [i \in 1..Len(x.v) |-> Str(CharAt(x.v, i))]
      [] x.t = "dict" -> [i \in 1..Len(Keys(x.v)) |-> Str(Keys(x.v)[i])]
      [] OTHER -> <<>>

\* part in x, for a str part; x is a str, a list or a dict
In(part, x) ==
    CASE x.t = "str" -> Contains(x.v, part)
      [] x.t = "list" -> \E i \in 1..Len(x.v) : x.v[i].t = "str" /\ x.v[i].v = part
      [] x.t = "dict" -> part \in DOMAIN x.v
      [] OTHER -> FALSE

\* s.find(sub) + 1: the first position of sub in s, 0 when there is none
Find(s, sub) ==
    LET at == {i \in 1..(Len(s) - Len(sub) + 1) : SubSeq(s, i, i + Len(sub) - 1) = sub}
    IN IF at = {} THEN 0 ELSE CHOOSE i \in at : \A j \in at : i <= j

\* s.replace(old, '')
RECURSIVE Remove(_, _)
Remove(s, old) ==
    IF Find(s, old) = 0 THEN s
    ELSE SubSeq(s, 1, Find(s, old) - 1)
         \o Remove(SubSeq(s, Find(s, old) + Len(old), Len(s)), old)

\* s.startswith(prefix)
StartsWith(s, prefix) == Len(s) >= Len(prefix) /\ SubSeq(s, 1, Len(prefix)) = prefix

\* the concatenation of a sequence of sequences
RECURSIVE Concat(_)
Concat(seqs) == IF seqs = <<>> THEN <<>> ELSE Head(seqs) \o Concat(Tail(seqs))

\* `'description' in sub and sub['description']`: "yes", "no", or "raise" when the
\* test or the subscript raises TypeError
SubHasDescription(sub) ==
    CASE sub.t = "dict" ->
            IF "description" \in DOMAIN sub.v /\ Truthy(sub.v.description)
            THEN "yes" ELSE "no"
      [] sub.t \in {"str", "list"} -> IF In("description", sub) THEN "raise" ELSE "no"
      [] OTHER -> "raise"

\* the sub-components of an entry that have a description, in order; the entry has
\* 'subComponents' and they are truthy
DescribedSubs(entry) ==
    LET subs == Items(entry.v.subComponents)
        idx == SortedSeq({i \in 1..Len(subs) : SubHasDescription(subs[i]) = "yes"})
    IN [n \in 1..Len(idx) |-> subs[idx[n]]]

\* walking the sub-components of an entry raises
SubsRaise(entry) ==
    \/ ~Iterable(entry.v.subComponents)
    \/ \E i \in 1..Len(Items(entry.v.subComponents)) :
            SubHasDescription(Items(entry.v.subComponents)[i]) = "raise"
    \/ \E n \in 1..Len(DescribedSubs(entry)) :
            ~Iterable(DescribedSubs(entry)[n].v.description)

HasSubComponents(entry) ==
    "subComponents" \in DOMAIN entry.v /\ Truthy(entry.v.subComponents)

\* descriptions, as the loop over sub['description'] leaves it: the 'text' of
\* every dict that has a truthy one
DescriptionTexts(sub) ==
    LET descs == Items(sub.v.description)
        idx == SortedSeq({i \in 1..Len(descs) :
                            descs[i].t = "dict" /\ Truthy(Get(descs[i].v, "text", None))})
    IN [n \in 1..Len(idx) |-> descs[idx[n]].v.text]

\* experience_item['description']: descriptions is emptied for every sub-component
\* that has a description and the item's description assigned again, so the texts
\* of the last such sub-component remain; ' '.join raises on a text that is no str
ExperienceDescription(exp) ==
    IF ~HasSubComponents(exp) THEN Str("")
    ELSE IF SubsRaise(exp) THEN Raised
    ELSE LET subs == DescribedSubs(exp)
             Texts(n) == DescriptionTexts(subs[n])
         IN IF \E n \in 1..Len(subs) : \E m \in 1..Len(Texts(n)) : ~IsStr(Texts(n)[m])
            THEN Raised
            ELSE IF subs = <<>> THEN Str("")
            ELSE Str(Join(" ", [m \in 1..Len(Texts(Len(subs))) |->
                                    Texts(Len(subs))[m].v]))

\* one pass of the loop over raw_data['experiences']
ExperienceItem(exp) ==
    IF exp.t # "dict" THEN Raised
    ELSE LET subtitle == Get(exp.v, "subtitle", Str(""))
             caption == Get(exp.v, "caption", Str(""))
             description == ExperienceDescription(exp)
         IN IF ~IsStr(subtitle) \/ ~Iterable(caption) \/ IsRaised(description)
            THEN Raised
            ELSE Dict([title |-> Get(exp.v, "title", Str("")),
                       company |-> Str(Remove(Remove(subtitle.v, " · Full-time"),
                                              " · Part-time")),
                       duration |-> caption,
                       description |-> description,
                       location |-> Get(exp.v, "metadata", Str("")),
                       company_logo |-> Get(exp.v, "logo", Str("")),
                       is_current |-> Bool(In("Present", caption) \/ ~In("·", caption))])

\* the texts the loop over an education entry's sub-components tests, in order
GradeCandidates(edu) ==
    LET subs == DescribedSubs(edu)
        descs == Concat([n \in 1..Len(subs) |-> Items(subs[n].v.description)])
        idx == SortedSeq({i \in 1..Len(descs) : descs[i].t = "dict"})
    IN [n \in 1..Len(idx) |-> Get(descs[idx[n]].v, "text", Str(""))]

\* one pass of the loop over raw_data['educations']
EducationItem(edu) ==
    IF edu.t # "dict" THEN Raised
    ELSE LET subtitle == Get(edu.v, "subtitle", Str(""))
             sep == IF In(" - ", subtitle) THEN " - "
                    ELSE IF In(", ", subtitle) THEN ", " ELSE ""
             cut == Find(subtitle.v, sep)
             texts == GradeCandidates(edu)
             grades == {n \in 1..Len(texts) : StartsWith(texts[n].v, "Grade:")}
         IN IF ~Iterable(subtitle) \/ (sep # "" /\ ~IsStr(subtitle)) THEN Raised
            ELSE IF HasSubComponents(edu)
                    /\ (SubsRaise(edu) \/ \E n \in 1..Len(texts) : ~IsStr(texts[n]))
            THEN Raised
            ELSE Dict([degree |-> IF sep = "" THEN subtitle
                                  ELSE Str(SubSeq(subtitle.v, 1, cut - 1)),
                       school |-> Get(edu.v, "title", Str("")),
                       field |-> IF sep = "" THEN Str("")
                                 ELSE Str(SubSeq(subtitle.v, cut + Len(sep),
                                                 Len(subtitle.v))),
                       year |-> Get(edu.v, "caption", Str("")),
                       logo |-> Get(edu.v, "logo", Str("")),
                       grade |-> IF ~HasSubComponents(edu) \/ grades = {} THEN Str("")
                                 ELSE texts[CHOOSE n \in grades :
                                                \A m \in grades : m <= n]])

\* one pass of the loop over raw_data['licenseAndCertificates']
CertificationItem(cert) ==
    IF cert.t # "dict" THEN Raised
    ELSE Dict([title |-> Get(cert.v, "title", Str("")),
               issuer |-> Get(cert.v, "subtitle", Str("")),
               date |-> Get(cert.v, "caption", Str("")),
               credential_id |-> Get(cert.v, "metadata", Str("")),
               logo |-> Get(cert.v, "logo", Str(""))])

\* skills_list without the entries that are str
SkillsList_titles_only(skills) ==
    LET items == Items(skills)
        idx == SortedSeq({i \in 1..Len(items) :
                            items[i].t = "dict" /\ "title" \in DOMAIN items[i].v})
    IN [n \in 1..Len(idx) |-> items[idx[n]].v.title]

\* skills_list: the title of a dict that has one, a str as it is, nothing else
SkillsList(skills) ==
    LET items == Items(skills)
        idx == SortedSeq({i \in 1..Len(items) :
                            \/ items[i].t = "dict" /\ "title" \in DOMAIN items[i].v
                            \/ items[i].t = "str"})
    IN [n \in 1..Len(idx) |->
            IF items[idx[n]].t = "dict" THEN items[idx[n]].v.title ELSE items[idx[n]]]

\* volunteer_list: the entries that are dicts
VolunteerList(entries) ==
    LET items == Items(entries)
        idx == SortedSeq({i \in 1..Len(items) : items[i].t = "dict"})
    IN [n \in 1..Len(idx) |-> items[idx[n]]]

\* the profile built from a record whose lists have been walked
ProcessedProfile(raw, url, now, experience, education, certifications) ==
    Dict([name |-> Get(raw, "fullName", Str("")),
          headline |-> Get(raw, "headline", Str("")),
          location |-> Get(raw, "addressWithCountry",
                           Get(raw, "addressWithoutCountry", Str(""))),
          about |-> Get(raw, "about", Str("")),
          connections |-> Get(raw, "connections", PyInt(0)),
          followers |-> Get(raw, "followers", PyInt(0)),
          email |-> Get(raw, "email", Str("")),
          url |-> Str(url),
          profile_image |-> Get(raw, "profilePic", Str("")),
          profile_image_hq |-> Get(raw, "profilePicHighQuality", Str("")),
          scraped_at |-> Str(now),
          job_title |-> Get(raw, "jobTitle", Str("")),
          company_name |-> Get(raw, "companyName", Str("")),
          company_industry |-> Get(raw, "companyIndustry", Str("")),
          company_website |-> Get(raw, "companyWebsite", Str("")),
          company_size |-> Get(raw, "companySize", Str("")),
          current_job_duration |-> Get(raw, "currentJobDuration", Str("")),
          top_skills |-> Get(raw, "topSkillsByEndorsements", Str("")),
          experience |-> List(experience),
          education |-> List(education),
          skills |-> List(SkillsList(Get(raw, "skills", List(<<>>)))),
          certifications |-> List(certifications),
          languages |-> Get(raw, "languages", List(<<>>)),
          volunteer_experience |->
              List(VolunteerList(Get(raw, "volunteerAndAwards", List(<<>>)))),
          honors_awards |-> Get(raw, "honorsAndAwards", List(<<>>)),
          projects |-> Get(raw, "projects", List(<<>>)),
          publications |-> Get(raw, "publications", List(<<>>)),
          recommendations |-> Get(raw, "recommendations", List(<<>>)),
          interests |-> Get(raw, "interests", List(<<>>))])

\* _process_apify_data(raw_data, url) at the time now; raw_data.keys() raises on a
\* record that is no dict, a loop raises on a value that cannot be iterated
_process_apify_data(raw_data, url, now) ==
    IF raw_data.t # "dict" THEN Raised
    ELSE LET raw == raw_data.v
             experiences == Get(raw, "experiences", List(<<>>))
             educations == Get(raw, "educations", List(<<>>))
             certificates == Get(raw, "licenseAndCertificates", List(<<>>))
             experience == [i \in 1..Len(Items(experiences)) |->
                                ExperienceItem(Items(experiences)[i])]
             education == [i \in 1..Len(Items(educations)) |->
                               EducationItem(Items(educations)[i])]
             certifications == [i \in 1..Len(Items(certificates)) |->
                                    CertificationItem(Items(certificates)[i])]
         IN IF \/ ~Iterable(experiences) \/ ~Iterable(educations)
               \/ ~Iterable(certificates)
               \/ ~Iterable(Get(raw, "skills", List(<<>>)))
               \/ ~Iterable(Get(raw, "volunteerAndAwards", List(<<>>)))
               \/ \E i \in 1..Len(experience) : IsRaised(experience[i])
               \/ \E i \in 1..Len(education) : IsRaised(education[i])
               \/ \E i \in 1..Len(certifications) : IsRaised(certifications[i])
            THEN Raised
            ELSE ProcessedProfile(raw, url, now, experience, education, certifications)

----------------------------------------------------------------------------
(* agents/scraper_agent.py: ScraperAgent.extract_profile_data, the request to    *)
(* the scraping service.  The outcome of requests.post is the record             *)
(* [kind, status_code, json]: kind "timeout" (requests.Timeout raised),          *)
(* "connection_error" (another exception raised) or "response"; json is the      *)
(* value of response.json(), Raised when the body is no JSON.  An exception      *)
(* that leaves the function is [t |-> "exception", v |-> its message]; the       *)
(* text that Python writes for its own errors is not modelled (empty).           *)

Raise(message) == [t |-> "exception", v |-> message]

\* the characters str.strip() removes (of those the inputs use)
Whitespace == {" ", "\t", "\n"}

RECURSIVE lstrip(_)
lstrip(s) == IF Len(s) > 0 /\ SubSeq(s, 1, 1) \in Whitespace THEN lstrip(Tail(s)) ELSE s

RECURSIVE rstrip(_)
rstrip(s) ==
    IF Len(s) > 0 /\ SubSeq(s, Len(s), Len(s)) \in Whitespace
    THEN rstrip(SubSeq(s, 1, Len(s) - 1))
    ELSE s

\* str.strip()
strip(s) == rstrip(lstrip(s))

\* the URL that only gets its surrounding whitespace stripped
CleanedUrl_strip_only(linkedin_url) == strip(linkedin_url)

\* lines 44-47: the URL that is sent to the service and stored in the profile
CleanedUrl(linkedin_url) ==
    IF StartsWith(strip(linkedin_url), "http")
    THEN strip(linkedin_url)
    ELSE "https://" \o strip(linkedin_url)

\* results[0] of a str or a list that is not empty
FirstResult(results) ==
    IF results.t = "str" THEN Str(SubSeq(results.v, 1, 1)) ELSE results.v[1]

\* lines 78-91 with every status read as a success
ProcessResponse_any_status(linkedin_url, resp, now) ==
    IF IsRaised(resp.json) \/ ~HasLen(resp.json) THEN Raise("")
    ELSE IF PyLen(resp.json) = 0
    THEN Raise("No data returned from Apify API. The profile may be private or "
               \o "the scraper encountered an issue.")
    ELSE IF resp.json.t = "dict" THEN Raise("")
    ELSE _process_apify_data(FirstResult(resp.json), linkedin_url, now)

\* lines 78-115: what the try block makes of a response (a profile or the
\* exception it raises); results[0] of a dict is a KeyError
ProcessResponse(linkedin_url, resp, now) ==
    IF resp.status_code \in {200, 201}
    THEN ProcessResponse_any_status(linkedin_url, resp, now)
    ELSE IF resp.status_code = 401 THEN Raise("Authentication failed (401)")
    ELSE IF resp.status_code = 404 THEN Raise("Actor not found (404)")
    ELSE IF resp.status_code = 429 THEN Raise("Rate limit exceeded (429)")
    ELSE Raise("API request failed with status")

\* extract_profile_data(linkedin_url) when the request ends as resp at time now
extract_profile_data(linkedin_url, resp, now) ==
    IF resp.kind = "timeout"
    THEN Raise("Request timed out. The scraping operation took too long to complete.")
    ELSE IF resp.kind = "connection_error"
    THEN Raise("Error extracting profile data: ")
    ELSE Only({IF IsRaised(processed_data)
               THEN Raise("Error extracting profile data: " \o processed_data.v)
               ELSE processed_data :
               processed_data \in {ProcessResponse(CleanedUrl(linkedin_url), resp, now)}})

----------------------------------------------------------------------------

(* utils/linkedin_parser.py: LinkedInParser, the cleaner of profile records.    *)

\* a character that re.sub(r'[^\w\s\-.,!?()&/]', '', text) keeps
IsKeptChar(c) == IsWordChar(c) \/ IsSpace(c) \/ c \in CharsOf("-.,!?()&/")

\* the characters of s at the positions in keep, in order
CharsAt(s, keep) ==
    LET idx == SortedSeq(keep)
    IN Join("", [n \in 1..Len(idx) |-> CharAt(s, idx[n])])

\* re.sub(r'\s+', ' ', text).strip(): of every run of spaces the first one stays,
\* unless the run starts or ends the text
CollapseSpaces(s) ==
    CharsAt(s, {i \in 1..Len(s) :
                  \/ ~IsSpace(CharAt(s, i))
                  \/ /\ i > 1 /\ ~IsSpace(CharAt(s, i - 1))
                     /\ \E j \in (i + 1)..Len(s) : ~IsSpace(CharAt(s, j))})

\* _clean_text(text): "" for a falsy text; re.sub raises TypeError on a truthy
\* text that is no str
_clean_text(text) ==
    IF ~Truthy(text) THEN Str("")
    ELSE IF ~IsStr(text) THEN Raised
    ELSE LET collapsed == CollapseSpaces(text.v)
         IN Str(CharsAt(collapsed, {i \in 1..Len(collapsed) :
                                      IsKeptChar(CharAt(collapsed, i))}))

\* _clean_skills_list(skills_list)
_clean_skills_list(skills_list) ==
    IF ~Truthy(skills_list) THEN List(<<>>)
    ELSE IF ~Iterable(skills_list) THEN Raised
    ELSE LET items == Items(skills_list)
             cleaned == [i \in 1..Len(items) |-> _clean_text(Str(PyStr(items[i], FALSE))).v]
             idx == SortedSeq({i \in 1..Len(cleaned) :
                                 /\ cleaned[i] # ""
                                 /\ \A j \in 1..(i - 1) :
                                        lower(cleaned[j]) # lower(cleaned[i])})
         IN List([n \in 1..Len(idx) |-> Str(cleaned[idx[n]])])

\* the positions where re.findall(r'\b(19|20)\d{2}\b', s) finds a year
YearStarts(s) ==
    {i \in 1..(Len(s) - 3) :
        /\ SubSeq(s, i, i + 1) \in {"19", "20"}
        /\ IsDigit(CharAt(s, i + 2))
        /\ IsDigit(CharAt(s, i + 3))
        /\ (i = 1 \/ ~IsWordChar(CharAt(s, i - 1)))
        /\ (i + 3 = Len(s) \/ ~IsWordChar(CharAt(s, i + 4)))}

\* re.findall(year_pattern, s): of each year the group, "19" or "20"
FindYears(s) ==
    [n \in 1..Cardinality(YearStarts(s)) |->
        SubSeq(s, SortedSeq(YearStarts(s))[n], SortedSeq(YearStarts(s))[n] + 1)]

\* parse_duration that takes the months between the two years it finds
parse_duration_counting_years(duration_str) ==
    IF ~Truthy(duration_str)
    THEN Dict([raw |-> duration_str, start_date |-> None, end_date |-> None,
               is_current |-> Bool(FALSE), duration_months |-> PyInt(0)])
    ELSE IF ~IsStr(duration_str) THEN Raised
    ELSE Dict([raw |-> duration_str,
               start_date |-> IF Len(FindYears(duration_str.v)) > 0
                              THEN Str(FindYears(duration_str.v)[1]) ELSE None,
               end_date |-> IF Len(FindYears(duration_str.v)) > 1
                            THEN Str(FindYears(duration_str.v)[2]) ELSE None,
               is_current |-> Bool(Contains(lower(duration_str.v), "present")),
               duration_months |->
                   PyInt(12 * Cardinality(YearStarts(duration_str.v)))])

\* parse_duration(duration_str): duration_months is set in line 123 only
parse_duration(duration_str) ==
    IF ~Truthy(duration_str)
    THEN Dict([raw |-> duration_str, start_date |-> None, end_date |-> None,
               is_current |-> Bool(FALSE), duration_months |-> PyInt(0)])
    ELSE IF ~IsStr(duration_str) THEN Raised
    ELSE Dict([raw |-> duration_str,
               start_date |-> IF Len(FindYears(duration_str.v)) > 0
                              THEN Str(FindYears(duration_str.v)[1]) ELSE None,
               end_date |-> IF Len(FindYears(duration_str.v)) > 1
                            THEN Str(FindYears(duration_str.v)[2]) ELSE None,
               is_current |-> Bool(Contains(lower(duration_str.v), "present")),
               duration_months |-> PyInt(0)])

\* text.split(sep) for a separator of one character
RECURSIVE SplitOn(_, _)
SplitOn(text, sep) ==
    IF Find(text, sep) = 0 THEN <<text>>
    ELSE <<SubSeq(text, 1, Find(text, sep) - 1)>>
         \o SplitOn(SubSeq(text, Find(text, sep) + 1, Len(text)), sep)

\* \b\d+ matches at i: a run of digits starts there
DigitRunStarts(s, i) ==
    IsDigit(CharAt(s, i)) /\ (i = 1 \/ ~IsWordChar(CharAt(s, i - 1)))

\* the position after the run of characters of chars that starts at i
RECURSIVE RunEnd(_, _, _)
RunEnd(s, i, chars) ==
    IF i <= Len(s) /\ CharAt(s, i) \in chars THEN RunEnd(s, i + 1, chars) ELSE i

\* the character at position i, "" behind the end of the text
CharFrom(s, i) == IF i <= Len(s) THEN CharAt(s, i) ELSE ""

\* (years?|months?) at position i, ignoring case: the text the group matches
TimeWordAt(s, i) ==
    IF i + 3 <= Len(s) /\ lower(SubSeq(s, i, i + 3)) = "year"
    THEN SubSeq(s, i, IF i + 4 <= Len(s) /\ lower(CharAt(s, i + 4)) = "s"
                      THEN i + 4 ELSE i + 3)
    ELSE IF i + 4 <= Len(s) /\ lower(SubSeq(s, i, i + 4)) = "month"
    THEN SubSeq(s, i, IF i + 5 <= Len(s) /\ lower(CharAt(s, i + 5)) = "s"
                      THEN i + 5 ELSE i + 4)
    ELSE ""

\* where in a sentence the number of each of the five patterns starts
AchievementStarts(s, pattern) ==
    {i \in 1..Len(s) :
        CASE pattern = 1 ->
                DigitRunStarts(s, i) /\ CharFrom(s, RunEnd(s, i, DigitSet)) = "%"
          [] pattern = 2 ->
                DigitRunStarts(s, i) /\ lower(CharFrom(s, RunEnd(s, i, DigitSet))) = "k"
          [] pattern = 3 ->
                DigitRunStarts(s, i) /\ lower(CharFrom(s, RunEnd(s, i, DigitSet))) = "m"
          [] pattern = 4 ->
                CharAt(s, i) = "$" /\ i < Len(s) /\ IsDigit(CharAt(s, i + 1))
          [] pattern = 5 ->
                /\ DigitRunStarts(s, i)
                /\ TimeWordAt(s, RunEnd(s, RunEnd(s, i, DigitSet), Whitespace)) # ""}

Max(S) == CHOOSE i \in S : \A j \in S : j <= i
Min(S) == CHOOSE i \in S : \A j \in S : i <= j

\* re.findall(pattern, text, re.IGNORECASE), stripped: of each sentence (the text
\* between two full stops) that holds the number, the whole sentence; for the
\* fifth pattern, which has a group, the word of the last number's time period
FindAchievements(text, pattern) ==
    Concat([n \in 1..Len(SplitOn(text, ".")) |->
              IF AchievementStarts(SplitOn(text, ".")[n], pattern) = {} THEN <<>>
              ELSE IF pattern < 5 THEN <<strip(SplitOn(text, ".")[n])>>
              ELSE <<TimeWordAt(SplitOn(text, ".")[n],
                        RunEnd(SplitOn(text, ".")[n],
                               RunEnd(SplitOn(text, ".")[n],
                                      Max(AchievementStarts(SplitOn(text, ".")[n], 5)),
                                      DigitSet),
                               Whitespace))>>])

\* extract_achievements(text)
extract_achievements(text) ==
    Concat([pattern \in 1..5 |-> FindAchievements(text, pattern)])

\* lines 220-233: the cleaned entry, or Raised when _clean_text raises
CleanedExperience(exp) ==
    IF \E k \in {"title", "company", "duration", "description", "location"} :
          IsRaised(_clean_text(Get(exp.v, k, Str(""))))
    THEN Raised
    ELSE Dict([title |-> _clean_text(Get(exp.v, "title", Str(""))),
               company |-> _clean_text(Get(exp.v, "company", Str(""))),
               duration |-> _clean_text(Get(exp.v, "duration", Str(""))),
               description |-> _clean_text(Get(exp.v, "description", Str(""))),
               location |-> _clean_text(Get(exp.v, "location", Str(""))),
               duration_info |->
                   parse_duration(_clean_text(Get(exp.v, "duration", Str("")))),
               achievements |->
                   List([n \in 1..Len(extract_achievements(
                                        _clean_text(Get(exp.v, "description",
                                                        Str(""))).v)) |->
                           Str(extract_achievements(
                                   _clean_text(Get(exp.v, "description",
                                                   Str(""))).v)[n])])])

\* _clean_experience_list(experience_list): the entries that are dicts, cleaned
_clean_experience_list(experience_list) ==
    IF ~Iterable(experience_list) THEN Raised
    ELSE IF \E i \in 1..Len(Items(experience_list)) :
               /\ Items(experience_list)[i].t = "dict"
               /\ IsRaised(CleanedExperience(Items(experience_list)[i]))
    THEN Raised
    ELSE List([n \in 1..Cardinality({i \in 1..Len(Items(experience_list)) :
                                       Items(experience_list)[i].t = "dict"}) |->
                 CleanedExperience(Items(experience_list)[
                     SortedSeq({i \in 1..Len(Items(experience_list)) :
                                  Items(experience_list)[i].t = "dict"})[n]])])

----------------------------------------------------------------------------

\* lines 244-251: the cleaned education entry, or Raised when _clean_text raises
CleanedEducation(edu) ==
    IF \E k \in {"degree", "school", "year", "field"} :
          IsRaised(_clean_text(Get(edu.v, k, Str(""))))
    THEN Raised
    ELSE Dict([degree |-> _clean_text(Get(edu.v, "degree", Str(""))),
               school |-> _clean_text(Get(edu.v, "school", Str(""))),
               year |-> _clean_text(Get(edu.v, "year", Str(""))),
               field |-> _clean_text(Get(edu.v, "field", Str("")))])

\* _clean_education_list(education_list): the entries that are dicts, cleaned
_clean_education_list(education_list) ==
    IF ~Iterable(education_list) THEN Raised
    ELSE IF \E i \in 1..Len(Items(education_list)) :
               /\ Items(education_list)[i].t = "dict"
               /\ IsRaised(CleanedEducation(Items(education_list)[i]))
    THEN Raised
    ELSE List([n \in 1..Cardinality({i \in 1..Len(Items(education_list)) :
                                       Items(education_list)[i].t = "dict"}) |->
                 CleanedEducation(Items(education_list)[
                     SortedSeq({i \in 1..Len(Items(education_list)) :
                                  Items(education_list)[i].t = "dict"})[n]])])

\* _parse_connections(connections_str): the first number of the text; the
\* "500+" branch is behind a text without a digit
_parse_connections(connections_str) ==
    IF ~Truthy(connections_str) THEN PyInt(0)
    ELSE IF ~IsStr(connections_str) THEN Raised
    ELSE IF \A i \in 1..Len(connections_str.v) : ~IsDigit(CharAt(connections_str.v, i))
    THEN PyInt(0)
    ELSE PyInt(StrToInt(SubSeq(connections_str.v,
             Min({i \in 1..Len(connections_str.v) :
                    IsDigit(CharAt(connections_str.v, i))}),
             RunEnd(connections_str.v,
                    Min({i \in 1..Len(connections_str.v) :
                           IsDigit(CharAt(connections_str.v, i))}),
                    DigitSet) - 1)))

\* clean_profile_data(raw_data); parsed_at is the clock's time
clean_profile_data(raw_data, now) ==
    IF raw_data.t # "dict" THEN Raised
    ELSE IF \/ \E k \in {"name", "headline", "location", "about"} :
                  IsRaised(_clean_text(Get(raw_data.v, k, Str(""))))
            \/ IsRaised(_clean_experience_list(Get(raw_data.v, "experience", List(<<>>))))
            \/ IsRaised(_clean_education_list(Get(raw_data.v, "education", List(<<>>))))
            \/ IsRaised(_clean_skills_list(Get(raw_data.v, "skills", List(<<>>))))
            \/ IsRaised(_parse_connections(Get(raw_data.v, "connections", Str(""))))
    THEN Raised
    ELSE Dict([name |-> _clean_text(Get(raw_data.v, "name", Str(""))),
               headline |-> _clean_text(Get(raw_data.v, "headline", Str(""))),
               location |-> _clean_text(Get(raw_data.v, "location", Str(""))),
               about |-> _clean_text(Get(raw_data.v, "about", Str(""))),
               experience |->
                   _clean_experience_list(Get(raw_data.v, "experience", List(<<>>))),
               education |->
                   _clean_education_list(Get(raw_data.v, "education", List(<<>>))),
               skills |-> _clean_skills_list(Get(raw_data.v, "skills", List(<<>>))),
               connections |->
                   _parse_connections(Get(raw_data.v, "connections", Str(""))),
               url |-> Get(raw_data.v, "url", Str("")),
               parsed_at |-> Str(now)])

----------------------------------------------------------------------------

----------------------------------------------------------------------------
(* agents/content_agent.py: ContentAgent.generate_suggestions.  The analysis it  *)
(* reads is the dict analyze_profile returns.  The requests to OpenAI catch      *)
(* their own errors and then give [] or "".                                      *)

_suggest_headline_improvements(analysis) ==
    LET content_quality == Get(analysis.v, "content_quality", <<>>)
        headline_length == Get(content_quality, "headline_length", 0)
    IN (IF headline_length < 50
        THEN <<"Expand your headline to include more keywords and value proposition">>
        ELSE IF headline_length > 120
        THEN <<"Shorten your headline to be more concise and impactful">>
        ELSE <<>>)
       \o <<"Include specific technologies or skills you specialize in",
            "Mention your years of experience or seniority level",
            "Add a unique value proposition that sets you apart",
            "Use action-oriented language to show what you do">>

_suggest_about_improvements(analysis) ==
    LET content_quality == Get(analysis.v, "content_quality", <<>>)
    IN (IF Get(content_quality, "about_length", 0) < 100
        THEN <<"Expand your about section to at least 2-3 paragraphs">> ELSE <<>>)
       \o (IF ~Get(content_quality, "has_quantified_achievements", FALSE)
           THEN <<"Add quantified achievements (e.g., 'Increased sales by 30%')">>
           ELSE <<>>)
       \o (IF ~Get(content_quality, "uses_action_words", FALSE)
           THEN <<"Use more action verbs to describe your accomplishments">> ELSE <<>>)
       \o <<"Start with a compelling hook that grabs attention",
            "Include your professional mission or passion",
            "Mention specific technologies, tools, or methodologies you use",
            "End with a call-to-action for potential connections">>

_suggest_experience_improvements ==
    <<"Use bullet points to highlight key achievements in each role",
      "Start each bullet point with an action verb",
      "Include metrics and numbers to quantify your impact",
      "Focus on results rather than just responsibilities",
      "Tailor descriptions to align with your target role">>

_suggest_skills_improvements(analysis, job_description) ==
    LET keyword_analysis == Get(analysis.v, "keyword_analysis", <<>>)
        missing_keywords == Get(keyword_analysis, "missing_keywords", <<>>)
    IN (IF missing_keywords # <<>> /\ job_description # ""
        THEN <<"Consider adding these relevant skills: "
               \o Join(", ", Take(missing_keywords, 5))>>
        ELSE <<>>)
       \o <<"Prioritize your most relevant skills at the top",
            "Include both technical and soft skills",
            "Get endorsements from colleagues for your key skills",
            "Add skills that are trending in your industry">>

_suggest_keyword_improvements(analysis) ==
    LET keyword_analysis == Get(analysis.v, "keyword_analysis", <<>>)
        missing_keywords == Get(keyword_analysis, "missing_keywords", <<>>)
    IN (IF Get(keyword_analysis, "keyword_density", 0) < 50
        THEN <<"Increase keyword density by incorporating more relevant terms">>
        ELSE <<>>)
       \o (IF missing_keywords # <<>>
           THEN <<"Consider adding these keywords: "
                  \o Join(", ", Take(missing_keywords, 3))>>
           ELSE <<>>)
       \o <<"Use industry-specific terminology naturally throughout your profile",
            "Include location-based keywords if relevant",
            "Add keywords related to your target roles">>

_suggest_content_quality_improvements(analysis) ==
    (IF RLt(Get(analysis.v, "completeness_score", R(0)), R(80))
     THEN <<"Complete all sections of your profile for better visibility">> ELSE <<>>)
    \o <<"Use a professional headshot as your profile photo",
         "Add a background image that reflects your industry",
         "Keep your profile updated with recent achievements",
         "Engage regularly by posting and commenting on relevant content",
         "Ask for recommendations from colleagues and clients">>

\* generate_suggestions(analysis, job_description) of an agent with or without an
\* OpenAI client; ai_content is what _generate_ai_content returns
generate_suggestions(analysis, job_description, openai_client, ai_content) ==
    LET suggestions ==
            [headline_improvements |-> _suggest_headline_improvements(analysis),
             about_section |-> _suggest_about_improvements(analysis),
             experience_optimization |-> _suggest_experience_improvements,
             skills_enhancement |->
                 _suggest_skills_improvements(analysis, job_description),
             keyword_optimization |-> _suggest_keyword_improvements(analysis),
             content_quality |-> _suggest_content_quality_improvements(analysis)]
    IN Dict(IF openai_client
            THEN [k \in DOMAIN suggestions \cup {"ai_generated_content"} |->
                     IF k = "ai_generated_content" THEN ai_content ELSE suggestions[k]]
            ELSE suggestions)

\* what _generate_ai_content may return: nothing usable after failed requests, or texts
AiContents ==
    {[ai_headlines |-> <<>>, ai_about_section |-> "", ai_experience_descriptions |-> <<>>],
     [ai_headlines |-> <<"1. Data Engineer | Python">>,
      ai_about_section |-> "I build data platforms.",
      ai_experience_descriptions |-> <<"Led a team of 5">>]}

----------------------------------------------------------------------------

(* streamlit_app.py: the session state and the Enhance button.  Streamlit runs   *)
(* main() anew for every interaction; st.session_state lives across the runs.    *)
(* A field of the session state is None or the value stored in it.  The          *)
(* messages are written without their leading pictograph.                        *)

\* initialize_session_state() on a new session whose agent has, or has not, an
\* OpenAI client
initialize_session_state(openai_client) ==
    [orchestrator |-> [openai_client |-> openai_client],
     analysis_results |-> None,
     profile_data |-> None,
     suggestions |-> None,
     current_url |-> None]

\* clear_results_if_url_changed that sets current_url and keeps the results
clear_results_keeping_results(state, linkedin_url) ==
    [state EXCEPT !.current_url = Str(linkedin_url)]

\* clear_results_if_url_changed(linkedin_url): the session state after it
clear_results_if_url_changed(state, linkedin_url) ==
    IF state.current_url # Str(linkedin_url)
    THEN [state EXCEPT !.analysis_results = None,
                       !.profile_data = None,
                       !.suggestions = None,
                       !.current_url = Str(linkedin_url)]
    ELSE state

\* lines 485-488: the URL passes the two tests of the button's handler
IsProfileUrl(linkedin_url) ==
    /\ strip(linkedin_url) # ""
    /\ \E pattern \in {"linkedin.com/in/", "www.linkedin.com/in/"} :
          Contains(lower(linkedin_url), pattern)

\* lines 506-508: the results of a run are stored
StoreResults(state, profile_data, analysis, suggestions) ==
    [state EXCEPT !.profile_data = profile_data,
                  !.analysis_results = analysis,
                  !.suggestions = suggestions]

\* lines 502-510: the profile is analyzed, the suggestions are made, all is stored
AnalyzeAndStore(state, profile_data, job_description, ai_content) ==
    Only({StoreResults(state, profile_data, analysis,
                       generate_suggestions(analysis, job_description,
                                            state.orchestrator.openai_client,
                                            ai_content)) :
            analysis \in {analyze_profile(profile_data, job_description)}})

\* lines 490-513 for a URL that passed: <<session state, message shown>> when the
\* request ends as resp
EnhanceProfile(state, linkedin_url, job_description, resp, now, ai_content) ==
    Only({IF IsRaised(profile_data)
          THEN <<clear_results_if_url_changed(state, linkedin_url),
                 "Error analyzing profile: " \o profile_data.v>>
          ELSE <<AnalyzeAndStore(clear_results_if_url_changed(state, linkedin_url),
                                 profile_data, job_description, ai_content),
                 "Profile analysis completed!">> :
          profile_data \in {extract_profile_data(linkedin_url, resp, now)}})

\* main() when the Enhance button was clicked
main(state, linkedin_url, job_description, resp, now, ai_content) ==
    IF strip(linkedin_url) = ""
    THEN <<state, "Please enter a LinkedIn profile URL">>
    ELSE IF ~IsProfileUrl(linkedin_url)
    THEN <<state, "Please enter a valid LinkedIn profile URL">>
    ELSE EnhanceProfile(state, linkedin_url, job_description, resp, now, ai_content)

----------------------------------------------------------------------------

(* app2.py: LinkedInEnhancerGradio, the step-by-step interface.  The object      *)
(* keeps current_profile_data, current_analysis and current_suggestions (None    *)
(* or the value stored); orchestrator.content_generator has an OpenAI client or  *)
(* none.  A method returns the tuple of texts it shows; of these the model       *)
(* keeps the status and the message, written without their leading pictograph.  *)

\* __init__
LinkedInEnhancerGradio(openai_client) ==
    [openai_client |-> openai_client,
     current_profile_data |-> None,
     current_analysis |-> None,
     current_suggestions |-> None]

\* lines 80-141: formatting the profile raises TypeError when a skill is no str
\* (", ".join) or projects, publications or recommendations has no len()
FormattingRaises(profile_data) ==
    \/ \E i \in 1..Len(Take(profile_data.v.skills.v, 20)) :
          ~IsStr(profile_data.v.skills.v[i])
    \/ ~HasLen(profile_data.v.projects)
    \/ ~HasLen(profile_data.v.publications)
    \/ ~HasLen(profile_data.v.recommendations)

Shown(status, message) == List(<<Str(status), Str(message)>>)

\* line 78
app2_store_profile(self, profile_data) ==
    [self EXCEPT !.current_profile_data = profile_data]

\* extract_profile_data(linkedin_url): <<the object after the call, what it returns>>
app2_extract_profile_data(self, linkedin_url, resp, now) ==
    IF strip(linkedin_url) = ""
    THEN <<self, Shown("Error", "Please enter a LinkedIn profile URL")>>
    ELSE IF ~IsProfileUrl(linkedin_url)
    THEN <<self, Shown("Error", "Please enter a valid LinkedIn profile URL")>>
    ELSE Only({IF IsRaised(profile_data)
               THEN <<self, Shown("Error", "Failed to extract profile data: "
                                           \o profile_data.v)>>
               ELSE <<app2_store_profile(self, profile_data),
                      IF FormattingRaises(profile_data)
                      THEN Shown("Error", "Failed to extract profile data: ")
                      ELSE Shown("Success", "**Name:** "
                                            \o PyStr(profile_data.v.name, FALSE))>> :
               profile_data \in {extract_profile_data(linkedin_url, resp, now)}})

\* analyze_profile that analyses whatever is held, a profile or none
app2_analyze_profile_unguarded(self, job_description) ==
    Only({<<[self EXCEPT !.current_analysis = analysis],
            Shown("Success", "**Overall Rating:** " \o analysis.v.overall_rating)>> :
          analysis \in {analyze_profile(self.current_profile_data, job_description)}})

\* analyze_profile(job_description)
app2_analyze_profile(self, job_description) ==
    IF ~Truthy(self.current_profile_data)
    THEN <<self, Shown("Error", "Please extract profile data first")>>
    ELSE app2_analyze_profile_unguarded(self, job_description)

\* generate_suggestions(job_description)
app2_generate_suggestions(self, job_description, ai_content) ==
    IF self.current_analysis = None
    THEN <<self, Shown("Error", "Please analyze profile first")>>
    ELSE <<[self EXCEPT !.current_suggestions =
                generate_suggestions(self.current_analysis, job_description,
                                     self.openai_client, ai_content)],
           Shown("Success", "")>>

\* export_results(linkedin_url): the state is left alone; the file holds the
\* profile's fields and, when an analysis is held, its ratings
export_results(self, linkedin_url) ==
    IF ~Truthy(self.current_profile_data) THEN Str("No data to export")
    ELSE IF \E i \in 1..Len(self.current_profile_data.v.skills.v) :
               ~IsStr(self.current_profile_data.v.skills.v[i])
    THEN Str("Export failed: ")
    ELSE Dict([profile_url |-> Str(linkedin_url),
               name |-> self.current_profile_data.v.name,
               headline |-> self.current_profile_data.v.headline,
               overall_rating |->
                   IF self.current_analysis = None THEN None
                   ELSE Str(self.current_analysis.v.overall_rating),
               completeness_score |->
                   IF self.current_analysis = None THEN None
                   ELSE Float(Round1(self.current_analysis.v.completeness_score))])

----------------------------------------------------------------------------

(* orchestrator.py: ProfileOrchestrator.enhance_profile, the whole workflow in   *)
(* one call.  memory.memory_manager is not part of the sources; MemoryManager is *)
(* the key-value store the specification describes: session data by URL.        *)

\* MemoryManager(): no session yet
EmptySessions == <<>>

Without(sessions, url) == [u \in DOMAIN sessions \ {url} |-> sessions[u]]

\* MemoryManager.force_refresh_session(url)
force_refresh_session(sessions, url) == Without(sessions, url)

\* MemoryManager.clear_session_cache(url): one session, or all of them for None
clear_session_cache(sessions, url) ==
    IF url = None THEN EmptySessions ELSE Without(sessions, url.v)

\* MemoryManager.store_session(url, session_data)
store_session(sessions, url, session_data) ==
    [u \in DOMAIN sessions \cup {url} |->
        IF u = url THEN session_data ELSE sessions[u]]

\* lines 33-39
ClearCaches(sessions, linkedin_url) ==
    clear_session_cache(
        clear_session_cache(force_refresh_session(sessions, linkedin_url),
                            Str(linkedin_url)),
        None)

\* format(x, ".1f") of a number that is not negative
Fixed1(x) ==
    IntToStr((Round1(x).n * 10) \div (Round1(x).d * 10)) \o "."
    \o IntToStr(((Round1(x).n * 10) \div Round1(x).d) % 10)

Numbered(items) == [i \in 1..Len(items) |-> IntToStr(i) \o ". " \o items[i]]

\* the categories of the suggestions in the order of the dict, with
\* category.replace('_', ' ').title()
Categories ==
    <<<<"headline_improvements", "Headline Improvements">>,
      <<"about_section", "About Section">>,
      <<"experience_optimization", "Experience Optimization">>,
      <<"skills_enhancement", "Skills Enhancement">>,
      <<"keyword_optimization", "Keyword Optimization">>,
      <<"content_quality", "Content Quality">>>>

\* _format_output(analysis, suggestions) for suggestions without AI content; the
\* lines are written without their pictographs and bullets (and the blank after)
_format_output(analysis, suggestions) ==
    Str(Join("\n",
        <<"## Profile Analysis", "",
          "**Completeness Score:** " \o Fixed1(analysis.v.completeness_score) \o "%",
          "**Overall Rating:** " \o analysis.v.overall_rating,
          "**Job Match Score:** " \o Fixed1(analysis.v.job_match_score) \o "%",
          "">>
        \o (IF analysis.v.strengths = <<>> THEN <<>>
            ELSE <<"### Profile Strengths">> \o analysis.v.strengths \o <<"">>)
        \o (IF analysis.v.weaknesses = <<>> THEN <<>>
            ELSE <<"### Areas for Improvement">> \o analysis.v.weaknesses \o <<"">>)
        \o <<"### Keyword Analysis",
             "**Keywords Found ("
                 \o IntToStr(Len(analysis.v.keyword_analysis.found_keywords)) \o "):** "
                 \o Join(", ", Take(analysis.v.keyword_analysis.found_keywords, 10))>>
        \o (IF analysis.v.keyword_analysis.missing_keywords = <<>> THEN <<>>
            ELSE <<"**Missing Keywords:** "
                   \o Join(", ", Take(analysis.v.keyword_analysis.missing_keywords, 5))>>)
        \o <<"", "## Enhancement Suggestions", "">>
        \o Concat([i \in 1..Len(Categories) |->
                     <<"### " \o Categories[i][2]>>
                     \o suggestions.v[Categories[i][1]]
                     \o <<"">>])
        \o <<"## Implementation Roadmap", "">>
        \o (IF analysis.v.recommendations = <<>> THEN <<>>
            ELSE <<"### Priority Actions">>
                 \o Numbered(Take(analysis.v.recommendations, 5)) \o <<"">>)
        \o <<"### General Best Practices",
             "Update your profile regularly with new achievements",
             "Use professional keywords relevant to your industry",
             "Engage with your network by sharing valuable content",
             "Ask for recommendations from colleagues and clients",
             "Monitor profile views and connection requests",
             "", "---",
             "*Analysis powered by AI Data scraped with respect to LinkedIn's ToS*">>))

\* lines 60-71: the session is stored, then the output is formatted
StoreAndFormat(sessions, begun, linkedin_url, job_description, profile_data, analysis, suggestions, timestamp) ==
    [memory |-> store_session(sessions, linkedin_url,
                              [profile_data |-> profile_data,
                               analysis |-> analysis,
                               suggestions |-> suggestions,
                               job_description |-> job_description,
                               timestamp |-> timestamp]),
     steps |-> begun \o <<"analyze_profile", "generate_suggestions", "store_session",
                          "_format_output">>,
     ret |-> _format_output(analysis, suggestions)]

\* lines 52-71
AnalyzeGenerateStore(sessions, begun, linkedin_url, job_description, profile_data, timestamp) ==
    Only({StoreAndFormat(sessions, begun, linkedin_url, job_description, profile_data,
                         analysis,
                         generate_suggestions(analysis, job_description, FALSE,
                                              [ai_headlines |-> <<>>]),
                         timestamp) :
          analysis \in {analyze_profile(profile_data, job_description)}})

\* lines 41-71
ScrapeAndGoOn(sessions, begun, linkedin_url, job_description, resp, now) ==
    Only({IF IsRaised(profile_data)
          THEN [memory |-> sessions, steps |-> begun, ret |-> profile_data]
          ELSE AnalyzeGenerateStore(sessions, begun, linkedin_url, job_description,
                                    profile_data, now) :
          profile_data \in {extract_profile_data(linkedin_url, resp, now)}})

\* the body of the try block, lines 29-71: the store after the call, the steps
\* begun, and the value returned or the exception raised
enhance_profile_uncaught(sessions, linkedin_url, job_description, force_refresh, resp, now) ==
    ScrapeAndGoOn(IF force_refresh THEN ClearCaches(sessions, linkedin_url)
                  ELSE sessions,
                  IF force_refresh
                  THEN <<"clear_session_cache", "extract_profile_data">>
                  ELSE <<"extract_profile_data">>,
                  linkedin_url, job_description, resp, now)

\* enhance_profile(linkedin_url, job_description, force_refresh)
enhance_profile(sessions, linkedin_url, job_description, force_refresh, resp, now) ==
    Only({IF IsRaised(done.ret)
          THEN [done EXCEPT !.ret = Str("Error in orchestration: " \o done.ret.v)]
          ELSE done :
          done \in {enhance_profile_uncaught(sessions, linkedin_url, job_description,
                                             force_refresh, resp, now)}})

----------------------------------------------------------------------------

(* Inputs of the analyzer *)

MaxExperience == 3
MaxSkills == 11

\* n copies of the character c
RECURSIVE Rep(_, _)
Rep(c, n) ==
    IF n <= 0 THEN ""
    ELSE IF n = 1 THEN c
    ELSE Rep(c, n \div 2) \o Rep(c, n - n \div 2)

\* s followed by filler up to n characters
Pad(s, n) == s \o Rep("x", n - Len(s))

\* a key the dict does not hold
Absent == [t |-> "absent", v |-> ""]

\* the dict of the fields that are not Absent
MkDict(fields) == Dict([k \in {q \in DOMAIN fields : fields[q].t # "absent"} |-> fields[k]])

SkillPool ==
    <<"Python", "SQL", "Excel", "Git", "Docker", "AWS", "Java", "Scrum", "Agile",
      "Kotlin", "Linux", "Rust", "Ruby", "Scala">>

SkillList(n) == List([i \in 1..n |-> Str(SkillPool[i])])

ExperienceEntry(title, description, months) ==
    Dict([title |-> Str(title), description |-> Str(description),
          duration_info |-> Dict([duration_months |-> PyInt(months)])])

ExperiencePool ==
    <<ExperienceEntry("Data Engineer", "Built ETL pipelines in Python", 30),
      ExperienceEntry("Analyst", "", 12),
      ExperienceEntry("Intern", "Reduced costs by 10 percent", 6),
      ExperienceEntry("Team Lead", "Managed a React team", 24)>>

ExperienceList(n) == List([i \in 1..n |-> ExperiencePool[i]])

EducationEntry(degree, field) == Dict([degree |-> Str(degree), field |-> Str(field)])

Profile(name, headline, location, about, experience, education, skills) ==
    MkDict([name |-> name, headline |-> headline, location |-> location,
            about |-> about, experience |-> experience, education |-> education,
            skills |-> skills])

\* the presence of each counted section, around two sizes of profile
PresenceProfiles ==
    {Profile(name, headline, location, about, ExperienceList(size[1]), education,
             SkillList(size[2])) :
        name \in {Absent, Str(""), Str("Ann Lee")},
        headline \in {Str(""), Str("Python Developer"), None},
        location \in {Str(""), Str("Pune")},
        about \in {Str(""), Str("Led a team of 5 using Docker")},
        education \in {List(<<>>), List(<<EducationEntry("BSc", "Computer Science")>>)},
        size \in {<<0, 0>>, <<2, 5>>}}

AboutLengths == {10, 50, 51, 99, 100, 150, 151, 200, 201}

\* the thresholds on lengths and counts
ThresholdProfiles ==
    {Profile(Str("Ann Lee"), Str("Developer"), Str(""), about, ExperienceList(e),
             List(<<>>), SkillList(k)) :
        about \in {Absent, None, Str("")}
                  \cup {Str(Pad("Launched 3 apps ", n)) : n \in AboutLengths}
                  \cup {Str(Pad("apps ", n)) : n \in {100, 151, 201}},
        e \in 0..MaxExperience,
        k \in {0, 4, 5, 9, 10, MaxSkills}}

\* the text the keyword searches read
TextProfiles ==
    {Profile(Str("Bo"), headline, Absent, about, experience, Absent, skills) :
        headline \in {Str(""), Str("Full-stack JavaScript engineer")},
        about \in {Str(""), Str("I love PYTHON and mySQL."), Str("Agile coach, 10 years")},
        experience \in {Absent, ExperienceList(1),
                        List(<<Dict([title |-> Str("Developer")])>>),
                        List(<<Dict([title |-> None, description |-> Str("x")])>>)},
        skills \in {Absent, List(<<Str("React")>>),
                    List(<<Str("Node.js"), Str("Kubernetes"), Str("GitHub")>>),
                    List(<<Str("React"), PyInt(5)>>)}}

\* a profile that satisfies every check of the completeness score
CompleteProfiles ==
    {Profile(Str("Ann Lee"), Str("Python Developer"), Str("Pune"),
             Str(Pad("Delivered 12 releases ", 201)), ExperienceList(e),
             List(<<EducationEntry("BSc", "Computer Science")>>), SkillList(10)) :
        e \in 2..MaxExperience}

JobDescriptions ==
    {"",
     "Python Python React React SQL",
     "the and 42 C++",
     "Senior Python3 developer: AWS, Docker & kubernetes experience",
     "Team team lead lead lead with data data pipelines pipelines cloud cloud cost cost react react engineer tools rust ruby scala"}

AnalyzerInputs ==
    ({None, Dict(<<>>)} \X JobDescriptions)
    \cup (PresenceProfiles \X {"", "Python Python React React SQL"})
    \cup (ThresholdProfiles \X {"", "Senior Python3 developer: AWS, Docker & kubernetes experience"})
    \cup (TextProfiles \X JobDescriptions)
    \cup (CompleteProfiles \X JobDescriptions)

----------------------------------------------------------------------------
(* The analyzer's calls: the arguments are drawn at the start, one operation is *)
(* applied to them and its result kept.                                         *)

\* the sequences of length at most n over the set S
RECURSIVE SeqsUpTo(_, _)
SeqsUpTo(S, n) ==
    IF n = 0 THEN {<<>>}
    ELSE LET shorter == SeqsUpTo(S, n - 1)
         IN shorter \cup {Append(q, x) : q \in shorter, x \in S}

MaxWeaknesses == 3

\* the weaknesses _identify_weaknesses and _empty_analysis produce, and texts that
\* hold several of the substrings, one of them, in capitals, or none
WeaknessPool ==
    {"About section needs improvement",
     "Limited skills listed",
     "Lacks quantified achievements",
     "Profile data not available",
     "Skills in the About Section are not quantified",
     "Few SKILLS, nothing quantified",
     ""}

WeaknessLists == SeqsUpTo(WeaknessPool, MaxWeaknesses)

Init ==
    /\ \/ /\ \E input \in AnalyzerInputs : arg_profile = input[1] /\ arg_job = input[2]
          /\ arg_weaknesses = <<>>
       \/ /\ arg_profile = Dict(<<>>)
          /\ arg_job = ""
          /\ arg_weaknesses \in WeaknessLists \ {<<>>}
    /\ arg_profile_skills = <<>>
    /\ arg_job_skills = <<>>
    /\ arg_raw_data = None
    /\ arg_url = ""
    /\ hash_seed = 0
    /\ called = "none"
    /\ ret = None
    /\ response = None
    /\ session_state = None
    /\ app = None
    /\ memory = None
    /\ steps = <<>>

AnalyzeProfile ==
    /\ called = "none"
    /\ called' = "analyze_profile"
    /\ ret' = analyze_profile(arg_profile, arg_job)
    /\ UNCHANGED <<args, hash_seed, others>>

\* _calculate_completeness takes any dict, the empty one too
CalculateCompleteness ==
    /\ called = "none"
    /\ arg_profile.t = "dict"
    /\ called' = "_calculate_completeness"
    /\ ret' = _calculate_completeness(arg_profile)
    /\ UNCHANGED <<args, hash_seed, others>>

\* analyze_profile calls the next two after its emptiness check
AnalyzeKeywords ==
    /\ called = "none"
    /\ Truthy(arg_profile)
    /\ called' = "_analyze_keywords"
    /\ ret' = _analyze_keywords(arg_profile, arg_job)
    /\ UNCHANGED <<args, hash_seed, others>>

CalculateJobMatch ==
    /\ called = "none"
    /\ Truthy(arg_profile)
    /\ called' = "_calculate_job_match"
    /\ ret' = _calculate_job_match(arg_profile, arg_job)
    /\ UNCHANGED <<args, hash_seed, others>>

GenerateRecommendations ==
    /\ called = "none"
    /\ called' = "_generate_recommendations"
    /\ ret' = _generate_recommendations(arg_profile, arg_weaknesses)
    /\ UNCHANGED <<args, hash_seed, others>>

Next ==
    \/ AnalyzeProfile
    \/ CalculateCompleteness
    \/ AnalyzeKeywords
    \/ CalculateJobMatch
    \/ GenerateRecommendations

Spec == Init /\ [][Next]_vars

----------------------------------------------------------------------------
(* Inputs of the job matcher *)

MaxSeed == 2
MaxProfileSkills == 2
MaxJobSkills == 2

ProfileSkillLists == SeqsUpTo({"Node.js", "Python", "mysql", "ReactJS"}, MaxProfileSkills)
JobSkillLists == SeqsUpTo({"javascript", "python", "SQL", "react"}, MaxJobSkills)

MatcherProfiles ==
    {Profile(Str("Ann Lee"), Str("Engineer"), Absent, about, experience, education, skills) :
        about \in {Str(""), Str("Python and AWS developer for 3 months")},
        experience \in {List(<<>>), ExperienceList(1), ExperienceList(2),
                        List(<<ExperiencePool[2], ExperiencePool[4]>>),
                        ExperienceList(MaxExperience)},
        education \in {List(<<>>),
                       List(<<EducationEntry("BSc", "Computer Science")>>),
                       List(<<EducationEntry("MBA", "Marketing"),
                              EducationEntry("", "")>>)},
        skills \in {List(<<>>), List(<<Str("Node.js")>>),
                    List(<<Str("Python"), Str("MySQL"), Str("React")>>)}}

MatcherJobs ==
    {"",
     "the and for 42",
     "Python Python React React SQL",
     "5 years of experience in sales",
     "3+ years experience with JavaScript, Python and machine learning",
     "Marketing engineer: 2 Years Experience building data pipelines, cloud tools, docker, SQL, science, leadership"}

----------------------------------------------------------------------------
(* The job matcher's calls *)

MatcherInit ==
    /\ \/ /\ arg_profile \in MatcherProfiles
          /\ arg_job \in MatcherJobs
          /\ hash_seed \in 0..MaxSeed
          /\ arg_profile_skills = <<>>
          /\ arg_job_skills = <<>>
       \/ /\ arg_profile = Profile(Absent, Absent, Absent, Absent, Absent, Absent, Absent)
          /\ arg_job = ""
          /\ hash_seed = 0
          /\ arg_profile_skills \in ProfileSkillLists
          /\ arg_job_skills \in JobSkillLists
    /\ arg_weaknesses = <<>>
    /\ arg_raw_data = None
    /\ arg_url = ""
    /\ called = "none"
    /\ ret = None
    /\ response = None
    /\ session_state = None
    /\ app = None
    /\ memory = None
    /\ steps = <<>>

FindSkillGaps ==
    /\ called = "none"
    /\ called' = "find_skill_gaps"
    /\ ret' = find_skill_gaps(arg_profile_skills, arg_job_skills)
    /\ UNCHANGED <<args, hash_seed, others>>

CalculateSkillsMatch ==
    /\ called = "none"
    /\ called' = "_calculate_skills_match"
    /\ ret' = _calculate_skills_match(arg_profile_skills, arg_job_skills)
    /\ UNCHANGED <<args, hash_seed, others>>

\* as calculate_match_score calls it: on the profile's experience and the parsed job
CalculateExperienceMatch ==
    /\ called = "none"
    /\ called' = "_calculate_experience_match"
    /\ ret' = _calculate_experience_match(PGet(arg_profile, "experience", List(<<>>)).v,
                                          _parse_job_requirements(arg_job))
    /\ UNCHANGED <<args, hash_seed, others>>

CalculateMatchScore ==
    /\ called = "none"
    /\ called' = "calculate_match_score"
    /\ ret' = calculate_match_score(arg_profile, arg_job)
    /\ UNCHANGED <<args, hash_seed, others>>

\* suggest_profile_improvements on the match analysis calculate_match_score returned
SuggestProfileImprovements ==
    /\ called = "calculate_match_score"
    /\ called' = "suggest_profile_improvements"
    /\ ret' = suggest_profile_improvements(ret)
    /\ UNCHANGED <<args, hash_seed, others>>

MatcherNext ==
    \/ FindSkillGaps
    \/ CalculateSkillsMatch
    \/ CalculateExperienceMatch
    \/ CalculateMatchScore
    \/ SuggestProfileImprovements

SpecMatcher == MatcherInit /\ [][MatcherNext]_vars

----------------------------------------------------------------------------
(* The same call made twice.  The order of list(set(..)) comes from the hashes  *)
(* of the strings, which Python draws anew for every interpreter process, so a  *)
(* second call may run in a process with another hash_seed.                     *)

RepeatProfiles ==
    {profile \in MatcherProfiles :
        profile.v.about = Str("") /\ profile.v.skills \in {List(<<>>), List(<<Str("Node.js")>>)}}

RepeatInit ==
    /\ arg_profile \in RepeatProfiles
    /\ arg_job \in MatcherJobs
    /\ hash_seed \in 0..MaxSeed
    /\ arg_profile_skills = <<>>
    /\ arg_job_skills = <<>>
    /\ arg_weaknesses = <<>>
    /\ arg_raw_data = None
    /\ arg_url = ""
    /\ called = "none"
    /\ ret = None
    /\ response = None
    /\ session_state = None
    /\ app = None
    /\ memory = None
    /\ steps = <<>>

\* the application is started again: a new process, a new hash seed
Restart ==
    /\ called # "none"
    /\ \E seed \in 0..MaxSeed : hash_seed' = seed
    /\ UNCHANGED <<args, called, ret, others>>

\* calculate_match_score is called, for the first time or again with the same
\* arguments
RepeatCalculateMatchScore ==
    /\ called \in {"none", "calculate_match_score"}
    /\ called' = "calculate_match_score"
    /\ ret' = calculate_match_score(arg_profile, arg_job)
    /\ UNCHANGED <<args, hash_seed, others>>

\* analyze_profile is called, for the first time or again with the same arguments
RepeatAnalyzeProfile ==
    /\ called \in {"none", "analyze_profile"}
    /\ called' = "analyze_profile"
    /\ ret' = analyze_profile(arg_profile, arg_job)
    /\ UNCHANGED <<args, hash_seed, others>>

RepeatNext ==
    \/ RepeatCalculateMatchScore
    \/ RepeatAnalyzeProfile
    \/ Restart

SpecRepeat == RepeatInit /\ [][RepeatNext]_vars

----------------------------------------------------------------------------
(* Inputs of the scraper's _process_apify_data: records of the scraping         *)
(* service, well-formed and malformed, and records that are already profiles.   *)

MaxEntries == 2
MaxSubComponents == 2

Text(s) == Dict([text |-> Str(s)])

\* sub-components with one text, several texts, no text, and no description
SubComponentPool ==
    {Dict([description |-> List(<<Text("Built ETL pipelines")>>)]),
     Dict([description |-> List(<<Text("Led 5 engineers"), Text("Cut costs")>>)]),
     Dict([description |-> List(<<Str("note"), Text("")>>)]),
     Dict([description |-> List(<<>>)]),
     Dict([title |-> Str("Skills: Python")])}

RawExperience(title, subtitle, caption, subComponents) ==
    MkDict([title |-> title, subtitle |-> subtitle, caption |-> caption,
            metadata |-> Str("Pune"), subComponents |-> subComponents])

\* entries of raw_data['experiences'], some of them no dicts
RawExperiencePool ==
    {RawExperience(Str("Data Engineer"), Str("Acme · Full-time"),
                   Str("Jan 2020 - Present · 4 yrs"), Absent),
     RawExperience(Str("Analyst"), Str("Initech · Part-time"),
                   Str("2018 - 2019 · 1 yr"),
                   List(<<Dict([description |-> List(<<Text("Reports")>>)])>>)),
     RawExperience(Str("Intern"), None, Str("2017"), Absent),
     Str("oops"),
     None}

\* raw records that differ in their experiences
ExperienceRecords ==
    {MkDict([fullName |-> Str("Ann Lee"),
             experiences |-> List(<<RawExperience(Str("Data Engineer"), Str("Acme"),
                                                  Str("2020 - Present"), List(subs))>>)]) :
        subs \in SeqsUpTo(SubComponentPool, MaxSubComponents)}
    \cup {MkDict([fullName |-> Str("Ann Lee"), experiences |-> List(entries)]) :
            entries \in SeqsUpTo(RawExperiencePool, MaxEntries)}
    \cup {MkDict([fullName |-> Str("Ann Lee"), experiences |-> None])}

RawEducation(title, subtitle, subComponents) ==
    MkDict([title |-> title, subtitle |-> subtitle, caption |-> Str("2012 - 2016"),
            subComponents |-> subComponents])

\* entries of raw_data['educations'], some of them no dicts
RawEducationPool ==
    {RawEducation(Str("MIT"), Str("BSc - Computer Science"), Absent),
     RawEducation(Str("LBS"), Str("MBA, Marketing"),
                  List(<<Dict([description |->
                                  List(<<Text("Activities: chess"), Text("Grade: A")>>)])>>)),
     RawEducation(Str("Evening school"), Absent,
                  List(<<Dict([description |-> List(<<Dict([text |-> None])>>)])>>)),
     Str("oops"),
     PyInt(7)}

EducationRecords ==
    {MkDict([fullName |-> Str("Ann Lee"), educations |-> List(entries)]) :
        entries \in SeqsUpTo(RawEducationPool, MaxEntries)}

\* entries of raw_data['skills']
RawSkillPool ==
    {Dict([title |-> Str("Python")]),
     Dict([title |-> Str("python")]),
     Dict([title |-> Str("")]),
     Dict([name |-> Str("Go")]),
     Str("SQL"),
     Str("C#  (advanced)"),
     None}

SkillRecords ==
    {MkDict([fullName |-> Str("Ann Lee"), skills |-> List(entries)]) :
        entries \in SeqsUpTo(RawSkillPool, MaxEntries)}
    \cup {MkDict([fullName |-> Str("Ann Lee"), skills |-> None])}

\* entries of raw_data['licenseAndCertificates'] and raw_data['volunteerAndAwards']
RawCertificatePool ==
    {Dict([title |-> Str("AWS Architect"), subtitle |-> Str("Amazon"),
           caption |-> Str("Issued 2021")]),
     Str("oops")}

CertificateRecords ==
    {MkDict([fullName |-> Str("Ann Lee"), licenseAndCertificates |-> List(entries),
             volunteerAndAwards |-> List(entries)]) :
        entries \in SeqsUpTo(RawCertificatePool, MaxEntries)}

\* raw records that differ in the fields copied as they are
BasicRecords ==
    {MkDict([fullName |-> fullName, headline |-> headline,
             addressWithCountry |-> addressWithCountry,
             addressWithoutCountry |-> addressWithoutCountry,
             about |-> about, connections |-> PyInt(500)]) :
        fullName \in {Absent, Str("Ann Lee")},
        headline \in {Absent, None, Str("Python Developer")},
        addressWithCountry \in {Absent, None, Str("Pune, India")},
        addressWithoutCountry \in {Absent, Str("Pune")},
        about \in {Absent, None, Str(""), Str("Led a team of 5")}}

\* records in the shape of the profile itself, every field filled
CanonicalRecords == CompleteProfiles \cup {profile \in MatcherProfiles :
                                            \A k \in DOMAIN profile.v : Truthy(profile.v[k])}

RawRecords ==
    ExperienceRecords \cup EducationRecords \cup SkillRecords \cup CertificateRecords
    \cup BasicRecords \cup CanonicalRecords \cup {None, List(<<>>), Dict(<<>>)}

\* the profile URL that was requested, and the time of the call
ProfileUrls == {"https://www.linkedin.com/in/ann-lee"}
ScrapeTimes == {"2025-01-31 09:00:00", "2025-01-31 09:00:01"}

----------------------------------------------------------------------------
(* The normalizer's calls *)

NormalizerInit ==
    /\ arg_raw_data \in RawRecords
    /\ arg_url \in ProfileUrls
    /\ arg_profile = None
    /\ arg_job = ""
    /\ arg_profile_skills = <<>>
    /\ arg_job_skills = <<>>
    /\ arg_weaknesses = <<>>
    /\ hash_seed = 0
    /\ called = "none"
    /\ ret = None
    /\ response = None
    /\ session_state = None
    /\ app = None
    /\ memory = None
    /\ steps = <<>>

\* the scraper's _process_apify_data(raw_data, url); scraped_at is the clock's time
ProcessApifyData ==
    /\ called = "none"
    /\ called' = "_process_apify_data"
    /\ \E now \in ScrapeTimes : ret' = _process_apify_data(arg_raw_data, arg_url, now)
    /\ UNCHANGED <<args, hash_seed, others>>

\* the parser's _clean_skills_list on the skills of the record
CleanSkillsList ==
    /\ called = "none"
    /\ arg_raw_data.t = "dict"
    /\ called' = "_clean_skills_list"
    /\ ret' = _clean_skills_list(Get(arg_raw_data.v, "skills", List(<<>>)))
    /\ UNCHANGED <<args, hash_seed, others>>

\* the parser's _clean_text on the about text of the record
CleanText ==
    /\ called = "none"
    /\ arg_raw_data.t = "dict"
    /\ called' = "_clean_text"
    /\ ret' = _clean_text(Get(arg_raw_data.v, "about", Str("")))
    /\ UNCHANGED <<args, hash_seed, others>>

NormalizerNext ==
    \/ ProcessApifyData
    \/ CleanSkillsList
    \/ CleanText

SpecNormalizer == NormalizerInit /\ [][NormalizerNext]_vars

----------------------------------------------------------------------------
(* The scraper's request: a URL as the user typed it, and what the scraping      *)
(* service answers.                                                              *)

RequestedUrls ==
    {"https://www.linkedin.com/in/ann-lee",
     " https://www.linkedin.com/in/ann-lee\n",
     "http://linkedin.com/in/bob ",
     "linkedin.com/in/ann-lee",
     "\twww.linkedin.com/in/bob/  ",
     "httpbin.org/in/x",
     "HTTPS://www.linkedin.com/in/ann-lee",
     " "}

StatusCodes == {200, 201, 204, 401, 404, 429, 500}

\* the items of the dataset the service returns: records, and values that are none
MaxResults == 2
ResultPool ==
    {MkDict([fullName |-> Str("Ann Lee"), headline |-> Str("Python Developer"),
             skills |-> List(<<Dict([title |-> Str("Python")])>>)]),
     MkDict([fullName |-> Str("Bob Roy"), projects |-> None,
             experiences |-> List(<<RawExperience(Str("Data Engineer"), Str("Acme"),
                                                  Str("2020 - Present"), List(<<>>))>>)]),
     Str("oops")}

\* response.json(): a list of items, or something else, or no JSON at all
ResponseBodies ==
    {List(results) : results \in SeqsUpTo(ResultPool, MaxResults)}
    \cup {Raised, None, Dict(<<>>), Str(""), Str("[]"), PyInt(0),
          Dict([error |-> Dict([message |-> Str("Actor run failed")])])}

HttpOutcomes ==
    {[kind |-> kind, status_code |-> 0, json |-> None] :
        kind \in {"timeout", "connection_error"}}
    \cup {[kind |-> "response", status_code |-> status_code, json |-> json] :
            status_code \in StatusCodes, json \in ResponseBodies}

ScraperInit ==
    /\ arg_url \in RequestedUrls
    /\ arg_raw_data = None
    /\ arg_profile = None
    /\ arg_job = ""
    /\ arg_profile_skills = <<>>
    /\ arg_job_skills = <<>>
    /\ arg_weaknesses = <<>>
    /\ hash_seed = 0
    /\ called = "none"
    /\ ret = None
    /\ response = None
    /\ session_state = None
    /\ app = None
    /\ memory = None
    /\ steps = <<>>

\* scraper.extract_profile_data(linkedin_url): the request ends in one of the
\* outcomes
ExtractProfileData ==
    /\ called = "none"
    /\ called' = "extract_profile_data"
    /\ \E resp \in HttpOutcomes, now \in ScrapeTimes :
          /\ response' = resp
          /\ ret' = extract_profile_data(arg_url, resp, now)
    /\ UNCHANGED <<args, hash_seed, session_state, app, memory, steps>>

ScraperNext == ExtractProfileData

SpecScraper == ScraperInit /\ [][ScraperNext]_vars

----------------------------------------------------------------------------

(* The Streamlit session: the user types a URL and a job description and clicks  *)
(* Enhance, again and again.                                                     *)

\* what the user types as profile URL; two of them are rejected by the handler
TypedUrls ==
    {"https://www.linkedin.com/in/ann-lee", "linkedin.com/in/bob ", " ", "example.com/ann"}

TypedJobs == {"", "Python developer"}

\* answers of the scraping service: a timeout or a profile
ServiceOutcomes ==
    {[kind |-> "timeout", status_code |-> 0, json |-> None]}
    \cup {[kind |-> "response", status_code |-> 200, json |-> List(<<result>>)] :
            result \in {r \in ResultPool : r.t = "dict"}}

StreamlitInit ==
    /\ \E openai_client \in BOOLEAN :
          session_state = initialize_session_state(openai_client)
    /\ arg_url = ""
    /\ arg_job = ""
    /\ arg_profile = None
    /\ arg_profile_skills = <<>>
    /\ arg_job_skills = <<>>
    /\ arg_weaknesses = <<>>
    /\ arg_raw_data = None
    /\ hash_seed = 0
    /\ called = "none"
    /\ ret = None
    /\ response = None
    /\ app = None
    /\ memory = None
    /\ steps = <<>>

\* a run of main() with the Enhance button clicked; arg_url and arg_job are the
\* texts of the two input fields
ClickEnhance ==
    /\ \E linkedin_url \in TypedUrls, job_description \in TypedJobs,
          resp \in ServiceOutcomes,
          ai_content \in IF session_state.orchestrator.openai_client
                         THEN AiContents
                         ELSE {[ai_headlines |-> <<>>]} :
          /\ arg_url' = linkedin_url
          /\ arg_job' = job_description
          /\ response' = resp
          /\ \E result \in {main(session_state, linkedin_url, job_description, resp,
                                 "2025-01-31 09:00:00", ai_content)} :
                /\ session_state' = result[1]
                /\ ret' = Str(result[2])
    /\ called' = "main"
    /\ UNCHANGED <<arg_profile, arg_profile_skills, arg_job_skills, arg_weaknesses,
                   arg_raw_data, hash_seed, app, memory, steps>>

StreamlitNext == ClickEnhance

SpecStreamlit == StreamlitInit /\ [][StreamlitNext]_vars

----------------------------------------------------------------------------

(* The step-by-step interface: the user clicks Extract, Analyze, Generate and    *)
(* Export in any order, with any text in the two input fields.                   *)

App2Urls == {"linkedin.com/in/bob ", "example.com/ann"}

\* the service answers with one profile, or not in time
App2Outcomes ==
    ServiceOutcomes
    \cup {[kind |-> "response", status_code |-> 200,
           json |-> List(<<MkDict([fullName |-> Str("Cy Poe"),
                                   headline |-> Str("Data Scientist | Python"),
                                   skills |-> List(<<Str("Python"), Str("SQL"),
                                                     Str("Spark"), Str("Docker"),
                                                     Str("AWS")>>)])>>)]}

App2Init ==
    /\ \E openai_client \in BOOLEAN : app = LinkedInEnhancerGradio(openai_client)
    /\ memory = EmptySessions
    /\ steps = <<>>
    /\ arg_url = ""
    /\ arg_job = ""
    /\ arg_profile = None
    /\ arg_profile_skills = <<>>
    /\ arg_job_skills = <<>>
    /\ arg_weaknesses = <<>>
    /\ arg_raw_data = None
    /\ hash_seed = 0
    /\ called = "none"
    /\ ret = None
    /\ response = None
    /\ session_state = None

\* on_extract_profile(url)
App2ExtractProfileData ==
    /\ \E linkedin_url \in App2Urls, resp \in App2Outcomes :
          /\ response' = resp
          /\ memory' = IF IsProfileUrl(linkedin_url) THEN EmptySessions ELSE memory
          /\ \E result \in {app2_extract_profile_data(app, linkedin_url, resp,
                                                      "2025-01-31 09:00:00")} :
                /\ app' = result[1]
                /\ ret' = result[2]
    /\ called' = "extract_profile_data"
    /\ UNCHANGED <<args, hash_seed, session_state, steps>>

\* on_analyze_profile(job_desc)
App2AnalyzeProfile ==
    /\ \E job_description \in TypedJobs :
          /\ \E result \in {app2_analyze_profile(app, job_description)} :
                /\ app' = result[1]
                /\ ret' = result[2]
    /\ called' = "analyze_profile"
    /\ UNCHANGED <<args, hash_seed, response, session_state, memory, steps>>

\* on_generate_suggestions(job_desc)
App2GenerateSuggestions ==
    /\ \E job_description \in TypedJobs,
          ai_content \in IF app.openai_client THEN {Only(AiContents)}
                         ELSE {[ai_headlines |-> <<>>]} :
          /\ \E result \in {app2_generate_suggestions(app, job_description,
                                                      ai_content)} :
                /\ app' = result[1]
                /\ ret' = result[2]
    /\ called' = "generate_suggestions"
    /\ UNCHANGED <<args, hash_seed, response, session_state, memory, steps>>

\* on_export_results(url)
App2ExportResults ==
    /\ \E linkedin_url \in App2Urls :
          /\ ret' = export_results(app, linkedin_url)
    /\ called' = "export_results"
    /\ UNCHANGED <<args, hash_seed, response, session_state, app, memory, steps>>

App2Next ==
    \/ App2ExtractProfileData
    \/ App2AnalyzeProfile
    \/ App2GenerateSuggestions
    \/ App2ExportResults

SpecApp2 == App2Init /\ [][App2Next]_vars

----------------------------------------------------------------------------


(* The orchestrator: enhance_profile is called again and again, with any URL,    *)
(* with or without a job description, with or without force_refresh.             *)

\* enhance_profile checks no URL: it is called with whatever it is given
OrchestratorUrls == {"https://www.linkedin.com/in/ann-lee", "linkedin.com/in/bob "}

OrchestratorInit ==
    /\ memory = EmptySessions
    /\ steps = <<>>
    /\ arg_url = ""
    /\ arg_job = ""
    /\ arg_profile = None
    /\ arg_profile_skills = <<>>
    /\ arg_job_skills = <<>>
    /\ arg_weaknesses = <<>>
    /\ arg_raw_data = None
    /\ hash_seed = 0
    /\ called = "none"
    /\ ret = None
    /\ response = None
    /\ session_state = None
    /\ app = None

\* orchestrator.enhance_profile(linkedin_url, job_description, force_refresh)
EnhanceProfileCall ==
    /\ \E linkedin_url \in OrchestratorUrls, job_description \in TypedJobs,
          force_refresh \in BOOLEAN, resp \in ServiceOutcomes :
          /\ arg_url' = linkedin_url
          /\ arg_job' = job_description
          /\ response' = resp
          /\ \E done \in {enhance_profile(memory, linkedin_url, job_description,
                                          force_refresh, resp,
                                          "2025-01-31 09:00:00")} :
                /\ memory' = done.memory
                /\ steps' = done.steps
                /\ ret' = done.ret
    /\ called' = "enhance_profile"
    /\ UNCHANGED <<arg_profile, arg_profile_skills, arg_job_skills, arg_weaknesses,
                   arg_raw_data, hash_seed, session_state, app>>

OrchestratorNext == EnhanceProfileCall

SpecOrchestrator == OrchestratorInit /\ [][OrchestratorNext]_vars

----------------------------------------------------------------------------


(* The parser's inputs: duration texts as LinkedIn shows them, raw profiles with  *)
(* up to MaxRoles experience entries, and jobs with and without required years    *)

MaxRoles == 2

DurationTexts ==
    {"", "2 years 3 months", "Jan 2020 - Present", "2019 - 2021 · 2 yrs",
     "Jan 2020 - Mar 2021", "5 yrs 2 mos", "1999-2005"}

\* what else a scraped record holds in the place of a duration
DurationValues == {Str(d) : d \in DurationTexts} \cup {None, PyInt(24)}

RoleTitles == {"Python Developer", "Chef"}
RoleDurations == {"Jan 2020 - Present", "2019 - 2021 · 2 yrs", "5 yrs 2 mos"}

RawRoles ==
    {Dict([title |-> Str(title), company |-> Str("Acme Inc."),
           duration |-> Str(duration),
           description |-> Str(IF title = "Chef" THEN ""
                               ELSE "Cut costs by 20% in 2 years. Led 5 people.")]) :
        title \in RoleTitles, duration \in RoleDurations}

RawProfiles ==
    {Dict([name |-> Str("Ann Lee"), connections |-> Str("500+ connections"),
           skills |-> List(<<Str("Python"), Str("python ")>>),
           experience |-> List(roles)]) : roles \in SeqsUpTo(RawRoles, MaxRoles)}
    \cup {Dict([name |-> Str("Bob Roe"),
                experience |-> List(<<Str("Chef"),
                                      Dict([title |-> Str("Chef"),
                                            duration |-> Str("10 years")])>>),
                education |-> List(<<Dict([degree |-> Str("BSc"), year |-> Str("2010")])>>)]),
          Dict([name |-> Str("Cy Poe"), experience |-> None]),
          Dict([name |-> Str("Di Moe"),
                experience |-> List(<<Dict([title |-> Str("Chef"),
                                            duration |-> PyInt(24)])>>)])}

ParserJobs == {"Python developer, 3 years of experience", "Python developer"}
ParseTimes == {"2025-01-31T09:00:00.000001"}

----------------------------------------------------------------------------
(* The parser's calls *)

ParserInit ==
    /\ arg_raw_data \in RawProfiles
    /\ arg_job \in ParserJobs
    /\ arg_url = ""
    /\ arg_profile = None
    /\ arg_profile_skills = <<>>
    /\ arg_job_skills = <<>>
    /\ arg_weaknesses = <<>>
    /\ hash_seed = 0
    /\ called = "none"
    /\ ret = None
    /\ response = None
    /\ session_state = None
    /\ app = None
    /\ memory = None
    /\ steps = <<>>

\* parse_duration(duration_str) on one of the duration values
ParseDuration ==
    /\ called = "none"
    /\ called' = "parse_duration"
    /\ \E duration_str \in DurationValues : ret' = parse_duration(duration_str)
    /\ UNCHANGED <<args, hash_seed, others>>

\* clean_profile_data(raw_data); parsed_at is the clock's time
CleanProfileData ==
    /\ called = "none"
    /\ called' = "clean_profile_data"
    /\ \E now \in ParseTimes : ret' = clean_profile_data(arg_raw_data, now)
    /\ UNCHANGED <<args, hash_seed, others>>

\* the matcher's _calculate_experience_match on the experience of the cleaned
\* profile and the requirements of the job
MatchCleanedExperience ==
    /\ called = "clean_profile_data"
    /\ ~IsRaised(ret)
    /\ called' = "_calculate_experience_match"
    /\ ret' = _calculate_experience_match(
                  Get(ret.v, "experience", List(<<>>)).v,
                  _parse_job_requirements(arg_job))
    /\ UNCHANGED <<args, hash_seed, others>>

ParserNext ==
    \/ ParseDuration
    \/ CleanProfileData
    \/ MatchCleanedExperience

SpecParser == ParserInit /\ [][ParserNext]_vars

----------------------------------------------------------------------------

(* Properties of the analyzer (specification Spec) *)

\* profile_data holds a value for key k that is true in Python
Present(profile_data, k) == k \in DOMAIN profile_data.v /\ Truthy(profile_data.v[k])

\* the length of the value of key k, 0 when the key is missing or holds None
Size(profile_data, k) ==
    IF k \in DOMAIN profile_data.v /\ HasLen(profile_data.v[k])
    THEN PyLen(profile_data.v[k]) ELSE 0

\* the ten checks of the completeness score
CompletenessChecks(profile_data) ==
    <<Present(profile_data, "name"),
      Present(profile_data, "headline"),
      Size(profile_data, "about") > 50,
      Size(profile_data, "about") > 200,
      Size(profile_data, "experience") >= 1,
      Size(profile_data, "experience") >= 2,
      Present(profile_data, "education"),
      Size(profile_data, "skills") >= 5,
      Size(profile_data, "skills") >= 10,
      Present(profile_data, "location")>>

SatisfiedChecks(profile_data) ==
    Cardinality({i \in 1..10 : CompletenessChecks(profile_data)[i]})

MultiplesOfTen == {R(10 * k) : k \in 0..10}

\* C1: whenever _calculate_completeness returns, its result is 10 times the
\* number of the ten checks that the profile satisfies, so it is a multiple of 10
\* between 0 and 100; so is the completeness_score that analyze_profile reports
C1_CompletenessIsTenPerCheck ==
    /\ (called = "_calculate_completeness" /\ ~IsRaised(ret)) =>
            /\ ret = Float(R(10 * SatisfiedChecks(arg_profile)))
            /\ ret.v \in MultiplesOfTen
    /\ called = "analyze_profile" => ret.v.completeness_score \in MultiplesOfTen

\* a profile that passes some of the checks and fails others has been scored
C1_Witness ==
    /\ called = "_calculate_completeness"
    /\ ret = Float(R(70))
    /\ Size(arg_profile, "about") \in 51..200

\* the fields of the empty-analysis sentinel
IsEmptyAnalysis(result) ==
    /\ result.v.completeness_score = R(0)
    /\ result.v.job_match_score = R(0)
    /\ result.v.keyword_analysis.found_keywords = <<>>
    /\ result.v.keyword_analysis.missing_keywords = <<>>
    /\ result.v.strengths = <<>>
    /\ result.v.weaknesses = <<"Profile data not available">>
    /\ result.v.overall_rating = "Unknown"

\* every field of the profile is missing or empty
AllFieldsEmpty(profile_data) ==
    profile_data.t = "dict" /\ \A k \in DOMAIN profile_data.v : ~Truthy(profile_data.v[k])

\* C2: analyze_profile of an empty or None profile returns the empty-analysis
\* sentinel whatever the job description is, and the completeness of a profile
\* whose fields are all empty or missing is 0
C2_EmptyProfileGivesSentinel ==
    /\ (called = "analyze_profile" /\ arg_profile \in {None, Dict(<<>>)}) =>
            IsEmptyAnalysis(ret)
    /\ (called = "_calculate_completeness" /\ AllFieldsEmpty(arg_profile)) =>
            ret = Float(R(0))

\* the empty dict has been analyzed against a job description
C2_Witness ==
    /\ called = "analyze_profile"
    /\ arg_profile = Dict(<<>>)
    /\ arg_job = "Python Python React React SQL"
    /\ ret.v.overall_rating = "Unknown"

\* a profile the scoring fails on: about or headline is None, or a skill is no str
Malformed(profile_data) ==
    /\ Truthy(profile_data)
    /\ \/ "about" \in DOMAIN profile_data.v /\ profile_data.v["about"] = None
       \/ "headline" \in DOMAIN profile_data.v /\ profile_data.v["headline"] = None
       \/ /\ "skills" \in DOMAIN profile_data.v
          /\ \E i \in 1..Len(profile_data.v["skills"].v) :
                ~IsStr(profile_data.v["skills"].v[i])

\* C3: analyze_profile never lets an exception reach its caller; on a malformed
\* profile it returns the empty-analysis sentinel, rated "Unknown"
C3_NoExceptionEscapes ==
    called = "analyze_profile" =>
        /\ ~IsRaised(ret)
        /\ Malformed(arg_profile) => IsEmptyAnalysis(ret)

\* a profile with a skill that is no str has been analyzed
C3_Witness ==
    /\ called = "analyze_profile"
    /\ Malformed(arg_profile)
    /\ \E i \in 1..Len(arg_profile.v["skills"].v) : arg_profile.v["skills"].v[i] = PyInt(5)
    /\ ret.v.overall_rating = "Unknown"

\* the text of the profile the keyword searches read, well-formed profiles
ProfileText(profile_data) == lower(_extract_all_text(profile_data).v)

\* the distinct alphabetic tokens of at least k letters of the job description
JobTokens(job_description, k) ==
    {lower(w) : w \in Range(FindWords(job_description, k))}

\* C5: whenever _calculate_job_match returns, the result is 0 for an empty job
\* description or one without a token of four letters or more, and otherwise
\* the share, in percent, of the distinct tokens found in the profile text,
\* which lies between 0 and 100
C5_JobMatchFormula ==
    (called = "_calculate_job_match" /\ ~IsRaised(ret)) =>
        LET tokens == JobTokens(arg_job, 4)
            matched == {t \in tokens : Contains(ProfileText(arg_profile), t)}
        IN IF arg_job = "" \/ tokens = {}
           THEN ret = Float(R(0))
           ELSE /\ ret = Float(Rat(100 * Cardinality(matched), Cardinality(tokens)))
                /\ RLe(R(0), ret.v) /\ RLe(ret.v, R(100))

\* some tokens of the job description, not all, were found in the profile
C5_Witness ==
    /\ called = "_calculate_job_match"
    /\ ~IsRaised(ret)
    /\ RLt(R(0), ret.v) /\ RLt(ret.v, R(100))

\* the profile of the scenario: skills ["React"], an empty about, no other text
ReactOnlyProfile(profile_data) ==
    /\ Truthy(profile_data)
    /\ "skills" \in DOMAIN profile_data.v
    /\ profile_data.v["skills"] = List(<<Str("React")>>)
    /\ "about" \in DOMAIN profile_data.v /\ profile_data.v["about"] = Str("")
    /\ "headline" \in DOMAIN profile_data.v /\ profile_data.v["headline"] = Str("")
    /\ "experience" \notin DOMAIN profile_data.v

KeywordScenario ==
    /\ called = "_analyze_keywords"
    /\ arg_job = "Python Python React React SQL"
    /\ ReactOnlyProfile(arg_profile)

\* C6 as claimed: in the scenario found_keywords contains "react" and
\* missing_keywords contains both "python" and "sql"
C6_MissingHoldsPythonAndSql ==
    KeywordScenario =>
        /\ "react" \in Range(ret.v.found_keywords)
        /\ "python" \in Range(ret.v.missing_keywords)
        /\ "sql" \in Range(ret.v.missing_keywords)

\* C6 as amended: in the scenario found_keywords contains "react" and
\* missing_keywords contains "python" but not "sql", a token of three letters
C6_MissingHoldsPythonOnly ==
    KeywordScenario =>
        /\ "react" \in Range(ret.v.found_keywords)
        /\ "python" \in Range(ret.v.missing_keywords)
        /\ "sql" \notin Range(ret.v.missing_keywords)

\* the scenario has been analyzed
C6_Witness == KeywordScenario /\ ret.v.missing_keywords = <<"python">>

\* the fixed technical vocabulary
Vocabulary ==
    {"python", "javascript", "react", "node.js", "sql", "mongodb",
     "aws", "docker", "kubernetes", "git", "agile", "scrum"}

KeywordResultOk(keyword_analysis) ==
    /\ Range(keyword_analysis.found_keywords) \subseteq Vocabulary
    /\ keyword_analysis.keyword_density = Len(keyword_analysis.found_keywords)
    /\ Len(keyword_analysis.missing_keywords) <= 5
    /\ keyword_analysis.missing_keywords # <<>> => arg_job # ""

\* C7: in every keyword analysis, found_keywords is within the vocabulary of 12
\* terms, keyword_density is the number of found keywords, missing_keywords has
\* at most 5 entries and has entries only when the job description is not empty
C7_KeywordAnalysisShape ==
    /\ Cardinality(Vocabulary) = 12
    /\ (called = "_analyze_keywords" /\ ~IsRaised(ret)) => KeywordResultOk(ret.v)
    /\ called = "analyze_profile" => KeywordResultOk(ret.v.keyword_analysis)

\* an analysis has found keywords and has cut the missing ones to five
C7_Witness ==
    /\ called = "_analyze_keywords"
    /\ ~IsRaised(ret)
    /\ ret.v.found_keywords # <<>>
    /\ Len(ret.v.missing_keywords) = 5

----------------------------------------------------------------------------
(* Properties of the job matcher (specification SpecMatcher) *)

\* C4 as claimed: find_skill_gaps reports match_percentage 100 whenever the
\* list of required job skills is empty, whatever the profile skills are
C4_EmptyJobSkillsMatchFully ==
    (called = "find_skill_gaps" /\ arg_job_skills = <<>>) =>
        ret.match_percentage = R(100)

\* a and b, lower case, belong to the same group of the synonym table
SameSynonymGroup(a, b) ==
    \E i \in 1..Len(skill_synonyms) :
        LET group == skill_synonyms[i].synonyms \cup {skill_synonyms[i].main}
        IN a \in group /\ b \in group

\* the required skill, lower case, is covered by the profile skills
Covered(job_skill, profile_skills) ==
    \E i \in 1..Len(profile_skills) :
        LET profile_skill == lower(profile_skills[i])
        IN \/ profile_skill = job_skill
           \/ SameSynonymGroup(profile_skill, job_skill)
           \/ Contains(profile_skill, job_skill)
           \/ Contains(job_skill, profile_skill)

\* C8: find_skill_gaps puts every required skill, lower case, in exactly one of
\* matching_skills and missing_skills: in matching_skills iff it equals a
\* profile skill, shares a synonym group with one or is a substring of one or
\* holds one as a substring; ["Node.js"] against ["javascript"] matches 100 percent
C8_SkillGapsPartition ==
    called = "find_skill_gaps" =>
        /\ Len(ret.matching_skills) + Len(ret.missing_skills) = Len(arg_job_skills)
        /\ Range(ret.matching_skills) \cap Range(ret.missing_skills) = {}
        /\ \A i \in 1..Len(arg_job_skills) :
                LET job_skill == lower(arg_job_skills[i])
                IN /\ job_skill \in Range(ret.matching_skills)
                        <=> Covered(job_skill, arg_profile_skills)
                   /\ job_skill \in Range(ret.missing_skills)
                        <=> ~Covered(job_skill, arg_profile_skills)
        /\ (arg_profile_skills = <<"Node.js">> /\ arg_job_skills = <<"javascript">>) =>
                ret.match_percentage = R(100)

\* the gaps of ["Node.js"] against ["javascript"] have been computed
C8_Witness ==
    /\ called = "find_skill_gaps"
    /\ arg_profile_skills = <<"Node.js">>
    /\ arg_job_skills = <<"javascript">>
    /\ ret.matching_skills = <<"javascript">>
    /\ ret.missing_skills = <<>>

\* 0.4 x skills + 0.3 x experience + 0.2 x keywords + 0.1 x education
WeightedSum(breakdown) ==
    RAdd(RAdd(RMul(Rat(4, 10), breakdown.skills.score),
              RMul(Rat(3, 10), breakdown.experience.score)),
         RAdd(RMul(Rat(2, 10), breakdown.keywords.score),
              RMul(Rat(1, 10), breakdown.education.score)))

\* C9: the overall_score of calculate_match_score is the weighted sum of the
\* four scores of its breakdown, with weights 0.4, 0.3, 0.2 and 0.1, rounded to
\* 2 decimals, and lies between 0 and 100
C9_OverallScoreIsWeightedSum ==
    called = "calculate_match_score" =>
        /\ ret.overall_score = Round2(WeightedSum(ret.breakdown))
        /\ RLe(R(0), ret.overall_score) /\ RLe(ret.overall_score, R(100))

\* a match whose weighted sum had to be rounded has been scored
C9_Witness ==
    /\ called = "calculate_match_score"
    /\ ret.overall_score # WeightedSum(ret.breakdown)
    /\ RLt(R(0), ret.breakdown.skills.score)
    /\ RLt(ret.breakdown.experience.score, R(80))

\* the experience entries of the profile of the call
ProfileExperience == PGet(arg_profile, "experience", List(<<>>)).v

\* the months of the entries, added up
TotalMonths ==
    LET months == [i \in 1..Len(ProfileExperience) |->
                      ProfileExperience[i].v["duration_info"].v["duration_months"].v]
        RECURSIVE Sum(_)
        Sum(n) == IF n = 0 THEN 0 ELSE months[n] + Sum(n - 1)
    IN Sum(Len(ProfileExperience))

\* the entries whose title and description hold one of the first 10 job keywords
RelevantEntries(job_keywords) ==
    {i \in 1..Len(ProfileExperience) :
        \E k \in 1..Len(job_keywords) :
            /\ k <= 10
            /\ Contains(lower(ProfileExperience[i].v["title"].v \o " "
                              \o ProfileExperience[i].v["description"].v),
                        job_keywords[k])}

\* min(total_years / required_years, 1) x 70 + share x 30
ExperienceFormula(required_years, share) ==
    RAdd(RMul(RMin(RDiv(Rat(TotalMonths, 12), R(required_years)), R(1)), R(70)),
         RMul(share, R(30)))

\* C10 as claimed: the experience score is min(total_years / required_years, 1)
\* x 70 + (relevant_roles / experience_count) x 30 when the job requires
\* experience_years > 0 (on a profile with experience entries, where the
\* quotient is defined), and 80 otherwise
C10_ExperienceScoreUnrounded ==
    called = "_calculate_experience_match" =>
        LET job_requirements == _parse_job_requirements(arg_job)
            relevant_roles == Cardinality(RelevantEntries(job_requirements.keywords))
        IN IF job_requirements.experience_years > 0
           THEN ProfileExperience # <<>> =>
                    ret.score = ExperienceFormula(job_requirements.experience_years,
                                    Rat(relevant_roles, Len(ProfileExperience)))
           ELSE ret.score = R(80)

\* C10 as amended: the experience score is min(total_years / required_years, 1)
\* x 70 + (relevant_roles / experience_count) x 30 rounded to 2 decimals when
\* the job requires experience_years > 0, the second term being 0 for a profile
\* without experience entries, and 80 otherwise; required 5 years, 2.5 years in
\* total and no relevant role give 35
C10_ExperienceScoreRounded ==
    called = "_calculate_experience_match" =>
        LET job_requirements == _parse_job_requirements(arg_job)
            relevant_roles == Cardinality(RelevantEntries(job_requirements.keywords))
            share == IF ProfileExperience = <<>> THEN R(0)
                     ELSE Rat(relevant_roles, Len(ProfileExperience))
        IN /\ IF job_requirements.experience_years > 0
              THEN ret.score = Round2(ExperienceFormula(job_requirements.experience_years,
                                                        share))
              ELSE ret.score = R(80)
           /\ (job_requirements.experience_years = 5 /\ TotalMonths = 30
                    /\ relevant_roles = 0) => ret.score = R(35)

\* the example has been scored: 5 years required, 30 months, no relevant role
C10_Witness ==
    /\ called = "_calculate_experience_match"
    /\ ret.details.required_experience = 5
    /\ ret.details.relevant_roles = 0
    /\ TotalMonths = 30
    /\ ret.score = R(35)

----------------------------------------------------------------------------
(* Properties of the rating, the strengths and the weaknesses.                  *)

\* the score of a returned analysis, from the fields the analysis carries
RatingScore(analysis) ==
    LET quality == analysis.content_quality
        bonus == (IF quality.has_quantified_achievements THEN 10 ELSE 0)
                 + (IF quality.uses_action_words THEN 10 ELSE 0)
                 + (IF quality.about_length > 150 THEN 10 ELSE 0)
        base == RAdd(RMul(analysis.completeness_score, Rat(2, 5)), R(bonus))
    IN IF RLt(R(0), analysis.job_match_score)
       THEN RAdd(base, RMul(analysis.job_match_score, Rat(3, 10)))
       ELSE base

RatingBucket(score) ==
    IF ~RLt(score, R(80)) THEN "Excellent"
    ELSE IF ~RLt(score, R(60)) THEN "Good"
    ELSE IF ~RLt(score, R(40)) THEN "Fair"
    ELSE "Needs Improvement"

Analyzed == called = "analyze_profile" /\ ~IsEmptyAnalysis(ret)

\* C11: the rating of an analysis is the bucket of completeness x 0.4, plus 10 for
\* each of quantified achievements, action words and an about text of more than
\* 150 characters, plus job match x 0.3 when the job match is positive; "Unknown"
\* is the rating of the sentinel only.
C11_RatingIsBucketOfScore ==
    called = "analyze_profile" =>
        IF IsEmptyAnalysis(ret) THEN ret.v.overall_rating = "Unknown"
        ELSE /\ ret.v.overall_rating = RatingBucket(RatingScore(ret.v))
             /\ ret.v.overall_rating # "Unknown"

\* an analysis with a job match whose about bonus decides the rating
C11_Witness ==
    /\ Analyzed
    /\ RLt(R(0), ret.v.job_match_score)
    /\ ret.v.content_quality.about_length > 150
    /\ ret.v.overall_rating = "Excellent"
    /\ RLt(RAdd(RatingScore(ret.v), R(-10)), R(80))

\* the items of a list of <<condition, item>> pairs whose condition holds, in order
Triggered(items) ==
    LET Pick(idx) == [n \in 1..Len(idx) |-> items[idx[n]][2]]
    IN Pick(SortedSeq({i \in 1..Len(items) : items[i][1]}))

AboutHasDigit(profile_data) ==
    /\ "about" \in DOMAIN profile_data.v
    /\ IsStr(profile_data.v.about)
    /\ \E i \in 1..Len(profile_data.v.about.v) :
            CharAt(profile_data.v.about.v, i) \in DigitSet

ExpectedStrengths(profile_data) ==
    Triggered(<<<<Size(profile_data, "experience") >= 3, "Good work experience history">>,
                <<Size(profile_data, "skills") >= 10, "Comprehensive skills list">>,
                <<Size(profile_data, "about") > 200, "Detailed about section">>>>)

ExpectedWeaknesses(profile_data) ==
    Triggered(<<<<Size(profile_data, "about") < 100, "About section needs improvement">>,
                <<Size(profile_data, "skills") < 5, "Limited skills listed">>,
                <<~AboutHasDigit(profile_data), "Lacks quantified achievements">>>>)

EmptyAboutSkillsExperience(profile_data) ==
    /\ profile_data.t = "dict"
    /\ \A k \in {"about", "skills", "experience"} :
            k \in DOMAIN profile_data.v /\ profile_data.v[k] \in {Str(""), List(<<>>)}

\* C12: the strengths and the weaknesses of an analysis are exactly the items the
\* profile triggers, in the fixed order; a profile whose about, skills and
\* experience are empty gets all three weaknesses and no strength.
C12_StrengthsAndWeaknessesAreTriggered ==
    Analyzed =>
        /\ ret.v.strengths = ExpectedStrengths(arg_profile)
        /\ ret.v.weaknesses = ExpectedWeaknesses(arg_profile)
        /\ EmptyAboutSkillsExperience(arg_profile) =>
                /\ ret.v.strengths = <<>>
                /\ ret.v.weaknesses = <<"About section needs improvement",
                                        "Limited skills listed",
                                        "Lacks quantified achievements">>

\* a profile that triggers some of the items and not others: the first and the
\* third strength, the second weakness only
C12_Witness ==
    /\ Analyzed
    /\ ret.v.strengths = <<"Good work experience history", "Detailed about section">>
    /\ ret.v.weaknesses = <<"Limited skills listed">>

\* the scenario of the empty about, skills and experience has been analyzed
C12_EmptyScenarioAnalyzed == Analyzed /\ EmptyAboutSkillsExperience(arg_profile)

----------------------------------------------------------------------------
(* Properties of the recommendations.                                           *)

\* text holds part, whatever the case of its letters
HoldsIgnoringCase(text, part) ==
    \E i \in 1..(Len(text) - Len(part) + 1) :
        lower(SubSeq(text, i, i + Len(part) - 1)) = part

\* the suggestion for one weakness, "" when none of the substrings is in it
SuggestionFor(weakness) ==
    IF HoldsIgnoringCase(weakness, "about section")
    THEN "Add a compelling about section with 150-300 words describing your expertise"
    ELSE IF HoldsIgnoringCase(weakness, "skills")
    THEN "Add more relevant skills to reach at least 10 skills"
    ELSE IF HoldsIgnoringCase(weakness, "quantified")
    THEN "Include specific numbers and metrics in your descriptions"
    ELSE ""

\* the positions of the weaknesses that have a suggestion, ascending
MappedPositions(weaknesses) ==
    SortedSeq({i \in 1..Len(weaknesses) : SuggestionFor(weaknesses[i]) # ""})

\* C13: _generate_recommendations returns, in the order of the weaknesses, the one
\* suggestion of each weakness that holds "about section", else "skills", else
\* "quantified"; a weakness holding none of them adds nothing, so the result is
\* never longer than the weaknesses.
C13_RecommendationsFollowWeaknesses ==
    called = "_generate_recommendations" =>
        /\ ret.t = "list"
        /\ Len(ret.v) <= Len(arg_weaknesses)
        /\ Len(ret.v) = Len(MappedPositions(arg_weaknesses))
        /\ \A n \in 1..Len(ret.v) :
                ret.v[n] = SuggestionFor(arg_weaknesses[MappedPositions(arg_weaknesses)[n]])

\* weaknesses where one has no suggestion and another holds several substrings
C13_Witness ==
    /\ called = "_generate_recommendations"
    /\ Len(arg_weaknesses) = 3
    /\ Len(ret.v) = 2
    /\ arg_weaknesses[1] = "Lacks quantified achievements"
    /\ arg_weaknesses[2] = "Profile data not available"
    /\ arg_weaknesses[3] = "Skills in the About Section are not quantified"

----------------------------------------------------------------------------
(* Properties of the education score.                                           *)

ProfileEducation == PGet(arg_profile, "education", List(<<>>)).v

\* the text of an education entry: its degree, a space, its field, in lower case
EducationText(edu) ==
    lower((IF "degree" \in DOMAIN edu.v THEN edu.v.degree.v ELSE "") \o " "
          \o (IF "field" \in DOMAIN edu.v THEN edu.v.field.v ELSE ""))

\* some entry's text holds one of the keywords at positions 1..n
EducationHoldsKeyword(keywords, n) ==
    \E i \in 1..Len(ProfileEducation) :
        \E k \in 1..n :
            k <= Len(keywords) /\ HoldsIgnoringCase(EducationText(ProfileEducation[i]), keywords[k])

\* C14: the education score of a match is 95 when some education entry's degree
\* and field text holds one of the first 5 job keywords, else 85 when the profile
\* has an education entry, else 70; it is never another value.
C14_EducationScoreIs70Or85Or95 ==
    called = "calculate_match_score" =>
        /\ ret.breakdown.education.score \in {R(70), R(85), R(95)}
        /\ ret.breakdown.education.score =
                IF ProfileEducation = <<>> THEN R(70)
                ELSE IF EducationHoldsKeyword(ret.job_requirements.keywords, 5) THEN R(95)
                ELSE R(85)

\* an education entry that holds a job keyword, but none of the first 5
C14_Witness ==
    /\ called = "calculate_match_score"
    /\ ret.breakdown.education.score = R(85)
    /\ EducationHoldsKeyword(ret.job_requirements.keywords, Len(ret.job_requirements.keywords))

----------------------------------------------------------------------------
(* Properties of repeated calls.                                                *)

\* C15: a second call of calculate_match_score with the same profile and job
\* description returns the scores, the education score of the breakdown and the
\* recommendations that the first call returned, whatever order the deduplicated
\* keyword and skill collections are iterated in.
C15_SameInputsSameScores ==
    [][(called' = called /\ called = "calculate_match_score")
            => /\ ret'.overall_score = ret.overall_score
               /\ ret'.breakdown.education.score = ret.breakdown.education.score
               /\ ret'.recommendations = ret.recommendations]_vars

\* analyze_profile alone does return the same analysis again
C15_AnalyzeProfileRepeats ==
    [][(called' = called /\ called = "analyze_profile") => ret' = ret]_vars

----------------------------------------------------------------------------
(* Properties of the normalizer (specification SpecNormalizer) *)

Processed == called = "_process_apify_data" /\ ~IsRaised(ret)

\* raw_data[k], an empty list when the record has no k
ListField(k) == Get(arg_raw_data.v, k, List(<<>>))

\* the entries of a list that are dicts, in order
MappingsOf(entries) ==
    LET idx == SortedSeq({i \in 1..Len(entries) : entries[i].t = "dict"})
    IN [n \in 1..Len(idx) |-> entries[idx[n]]]

\* a record whose list fields are lists and whose dict entries can be normalized
\* one by one; only entries that are no dicts are wrong with it
OnlyEntriesMalformed ==
    /\ arg_raw_data.t = "dict"
    /\ \A k \in {"experiences", "educations", "skills", "licenseAndCertificates",
                  "volunteerAndAwards"} : ListField(k).t = "list"
    /\ \A i \in 1..Len(MappingsOf(ListField("experiences").v)) :
            ~IsRaised(ExperienceItem(MappingsOf(ListField("experiences").v)[i]))
    /\ \A i \in 1..Len(MappingsOf(ListField("educations").v)) :
            ~IsRaised(EducationItem(MappingsOf(ListField("educations").v)[i]))

HasNonMapping(k) == \E i \in 1..Len(ListField(k).v) : ListField(k).v[i].t # "dict"

\* C16: when the experiences, educations, skills or certificates of the raw record
\* hold an entry that is no dict, _process_apify_data skips that entry, normalizes
\* the other entries and returns a profile.
C16_MalformedEntriesAreSkipped ==
    (called = "_process_apify_data" /\ OnlyEntriesMalformed) =>
        /\ ~IsRaised(ret)
        /\ Len(ret.v.experience.v) = Len(MappingsOf(ListField("experiences").v))
        /\ Len(ret.v.education.v) = Len(MappingsOf(ListField("educations").v))
        /\ Len(ret.v.certifications.v)
                = Len(MappingsOf(ListField("licenseAndCertificates").v))

\* what does hold: an entry of skills that is neither a dict nor a str is skipped,
\* and so is an entry of volunteerAndAwards that is no dict
C16_SkillEntriesAreSkipped ==
    (Processed /\ OnlyEntriesMalformed) =>
        /\ \A i \in 1..Len(ret.v.skills.v) :
                \E j \in 1..Len(ListField("skills").v) :
                    \/ ListField("skills").v[j] = ret.v.skills.v[i]
                    \/ /\ ListField("skills").v[j].t = "dict"
                       /\ "title" \in DOMAIN ListField("skills").v[j].v
                       /\ ListField("skills").v[j].v.title = ret.v.skills.v[i]
        /\ ret.v.volunteer_experience.v = MappingsOf(ListField("volunteerAndAwards").v)

\* the sub-components of a raw experience entry are dicts whose descriptions are
\* lists of str and of dicts with a str text
PlainSubComponents(exp) ==
    /\ "subComponents" \in DOMAIN exp.v
    /\ exp.v.subComponents.t = "list"
    /\ \A i \in 1..Len(exp.v.subComponents.v) :
            LET sub == exp.v.subComponents.v[i]
            IN /\ sub.t = "dict"
               /\ "description" \in DOMAIN sub.v =>
                    /\ sub.v.description.t = "list"
                    /\ \A j \in 1..Len(sub.v.description.v) :
                            LET desc == sub.v.description.v[j]
                            IN \/ desc.t = "str"
                               \/ desc.t = "dict" /\ "text" \in DOMAIN desc.v
                                                  /\ IsStr(desc.v.text)

\* the non-empty text values of one sub-component, in order
TextsOfSub(sub) ==
    IF "description" \notin DOMAIN sub.v THEN <<>>
    ELSE LET descs == sub.v.description.v
             idx == SortedSeq({j \in 1..Len(descs) :
                                 descs[j].t = "dict" /\ descs[j].v.text.v # ""})
         IN [n \in 1..Len(idx) |-> descs[idx[n]].v.text.v]

\* all text values of all sub-components of an entry, in order
AllTexts(exp) ==
    Concat([i \in 1..Len(exp.v.subComponents.v) |-> TextsOfSub(exp.v.subComponents.v[i])])

\* C17: the description of a normalized experience entry is the text values of
\* all descriptions of all sub-components of the raw entry, joined by single
\* spaces; none is dropped when several sub-components have descriptions.
C17_DescriptionJoinsAllTexts ==
    Processed =>
        \A i \in 1..Len(ret.v.experience.v) :
            PlainSubComponents(ListField("experiences").v[i]) =>
                ret.v.experience.v[i].v.description
                    = Str(Join(" ", AllTexts(ListField("experiences").v[i])))

\* what does hold: the description is the joined texts of the last sub-component
\* that has a non-empty description
C17_DescriptionJoinsLastTexts ==
    Processed =>
        \A i \in 1..Len(ret.v.experience.v) :
            LET exp == ListField("experiences").v[i]
                with == {n \in 1..Len(exp.v.subComponents.v) :
                            /\ "description" \in DOMAIN exp.v.subComponents.v[n].v
                            /\ exp.v.subComponents.v[n].v.description.v # <<>>}
            IN PlainSubComponents(exp) =>
                ret.v.experience.v[i].v.description
                    = IF with = {} THEN Str("")
                      ELSE Str(Join(" ", TextsOfSub(exp.v.subComponents.v[
                                            CHOOSE n \in with : \A m \in with : m <= n])))

\* the raw field k is absent or None
AbsentOrNull(k) == k \notin DOMAIN arg_raw_data.v \/ arg_raw_data.v[k] = None

\* C18: in every profile _process_apify_data returns, about, headline and location
\* are strings; a raw field that is absent or None gives the empty string.
C18_TextFieldsAreStrings ==
    Processed =>
        /\ IsStr(ret.v.about) /\ IsStr(ret.v.headline) /\ IsStr(ret.v.location)
        /\ AbsentOrNull("about") => ret.v.about = Str("")
        /\ AbsentOrNull("headline") => ret.v.headline = Str("")
        /\ (AbsentOrNull("addressWithCountry") /\ AbsentOrNull("addressWithoutCountry"))
                => ret.v.location = Str("")

\* what does hold: a field that is absent gives the empty string, and
\* _clean_text gives the empty string for None
C18_AbsentFieldsAreEmpty ==
    /\ Processed =>
            /\ "about" \notin DOMAIN arg_raw_data.v => ret.v.about = Str("")
            /\ "headline" \notin DOMAIN arg_raw_data.v => ret.v.headline = Str("")
            /\ ("addressWithCountry" \notin DOMAIN arg_raw_data.v
                    /\ "addressWithoutCountry" \notin DOMAIN arg_raw_data.v)
                  => ret.v.location = Str("")
    /\ (called = "_clean_text" /\ AbsentOrNull("about")) => ret = Str("")

\* no two entries of a list of skills are equal when case is ignored, and none
\* is empty
NoDuplicateSkills(skills) ==
    /\ \A i \in 1..Len(skills) : IsStr(skills[i]) /\ skills[i].v # ""
    /\ \A i, j \in 1..Len(skills) : i # j => lower(skills[i].v) # lower(skills[j].v)

\* C19: the skills of every profile _process_apify_data returns hold no two
\* entries that are equal when case is ignored, and no empty entry.
C19_SkillsAreDeduplicated ==
    Processed => NoDuplicateSkills(ret.v.skills.v)

\* what does hold: the list _clean_skills_list returns has no such duplicates and
\* no empty entry
C19_CleanSkillsListDeduplicates ==
    (called = "_clean_skills_list" /\ ~IsRaised(ret)) => NoDuplicateSkills(ret.v)

\* the record has the keys of a profile, each with a non-empty value
IsCanonical(record) ==
    /\ record.t = "dict"
    /\ \A k \in {"name", "headline", "location", "about", "experience", "education",
                  "skills"} : k \in DOMAIN record.v /\ Truthy(record.v[k])
    /\ DOMAIN record.v \cap {"fullName", "addressWithCountry", "addressWithoutCountry",
                              "experiences", "educations"} = {}

\* C20 as stated: _process_apify_data of a record that is already a profile
\* raises nothing and returns a profile whose fields are all empty.
C20_CanonicalRecordGivesEmptyProfile ==
    (called = "_process_apify_data" /\ IsCanonical(arg_raw_data)) =>
        /\ ~IsRaised(ret)
        /\ \A k \in {"name", "headline", "location", "about"} : ret.v[k] = Str("")
        /\ \A k \in {"experience", "education", "skills"} : ret.v[k] = List(<<>>)

\* C20: _process_apify_data of a record that is already a profile raises nothing
\* and returns a profile whose name, location, experience and education are
\* empty, while headline, about and skills, keys that the raw record has too, are
\* those of the record.
C20_CanonicalRecordKeepsSharedKeys ==
    (called = "_process_apify_data" /\ IsCanonical(arg_raw_data)) =>
        /\ ~IsRaised(ret)
        /\ ret.v.name = Str("") /\ ret.v.location = Str("")
        /\ ret.v.experience = List(<<>>) /\ ret.v.education = List(<<>>)
        /\ ret.v.headline = arg_raw_data.v.headline
        /\ ret.v.about = arg_raw_data.v.about
        /\ ret.v.skills = arg_raw_data.v.skills

\* a record that is already a profile, with a list of str skills, has been processed
C20_Witness ==
    /\ Processed
    /\ IsCanonical(arg_raw_data)
    /\ Len(arg_raw_data.v.skills.v) >= 2
    /\ ret.v.skills = arg_raw_data.v.skills

----------------------------------------------------------------------------
(* Properties of the scraper's request (specification SpecScraper) *)

Extracted == called = "extract_profile_data"

\* the service answered with status 200 or 201 and a list that is not empty
AnsweredWithResults ==
    /\ response.kind = "response"
    /\ response.status_code \in {200, 201}
    /\ response.json.t = "list"
    /\ Len(response.json.v) > 0

\* the returned profile is the one built from the first result
BuiltFromFirstResult ==
    /\ \E now \in ScrapeTimes :
          ret = _process_apify_data(response.json.v[1], CleanedUrl(arg_url), now)
    /\ ret.v.name = Get(response.json.v[1].v, "fullName", Str(""))

\* C21: extract_profile_data returns a profile only when the service answered
\* with status 200/201 and a non-empty result list, and that profile is built
\* from the first result; after a timeout, another error, a status that is no
\* success or an empty result it raises and returns nothing
C21_ProfileOnlyFromResults ==
    Extracted =>
        /\ ~IsRaised(ret) => AnsweredWithResults /\ BuiltFromFirstResult
        /\ ~AnsweredWithResults => IsRaised(ret)

\* a profile is returned from the first of two results of a 201 answer
C21_Witness ==
    /\ Extracted
    /\ ~IsRaised(ret)
    /\ response.status_code = 201
    /\ Len(response.json.v) = 2
    /\ response.json.v[1] # response.json.v[2]

\* the request timed out and the call raised
C21_TimeoutRaises ==
    Extracted /\ response.kind = "timeout" /\ IsRaised(ret)


\* s is made of whitespace only
AllWhitespace(s) == \A i \in 1..Len(s) : SubSeq(s, i, i) \in Whitespace

\* inner is s without the whitespace around it
IsStripped(s, inner) ==
    /\ \E i \in 0..Len(s) : \E j \in i..Len(s) :
          /\ inner = SubSeq(s, i + 1, j)
          /\ AllWhitespace(SubSeq(s, 1, i))
          /\ AllWhitespace(SubSeq(s, j + 1, Len(s)))
    /\ inner # "" => /\ SubSeq(inner, 1, 1) \notin Whitespace
                     /\ SubSeq(inner, Len(inner), Len(inner)) \notin Whitespace

\* the 'url' of the returned profile
StoredUrl == ret.v.url.v

\* C22: the returned profile stores as 'url' the requested URL with its surrounding
\* whitespace stripped and "https://" put before it exactly when the stripped URL
\* does not start with "http"; a URL that starts with http (and has no whitespace
\* around it) is stored as it is, and normalizing the stored URL again changes nothing
C22_StoredUrlIsNormalized ==
    (Extracted /\ ~IsRaised(ret)) =>
        \E stripped \in {strip(arg_url)} :
            /\ IsStripped(arg_url, stripped)
            /\ StartsWith(stripped, "http") => StoredUrl = stripped
            /\ ~StartsWith(stripped, "http") => StoredUrl = "https://" \o stripped
            /\ (StartsWith(arg_url, "http") /\ stripped = arg_url) => StoredUrl = arg_url
            /\ CleanedUrl(StoredUrl) = StoredUrl

\* a URL typed without scheme and with whitespace around it has been stored
C22_Witness ==
    /\ Extracted
    /\ ~IsRaised(ret)
    /\ arg_url = "\twww.linkedin.com/in/bob/  "
    /\ StoredUrl = "https://www.linkedin.com/in/bob/"

\* a URL that starts with http has been stored as it was typed
C22_HttpUrlUnchanged ==
    /\ Extracted
    /\ ~IsRaised(ret)
    /\ arg_url = "https://www.linkedin.com/in/ann-lee"
    /\ StoredUrl = arg_url

----------------------------------------------------------------------------
(* Properties of the Streamlit session (specification SpecStreamlit) *)

\* the session holds no result
NoResults(state) ==
    state.profile_data = None /\ state.analysis_results = None /\ state.suggestions = None

\* the results the session holds were produced by a run for linkedin_url: the
\* profile is the one scraped for that URL, the analysis is the analysis of that
\* profile and the suggestions come from that analysis
ProducedFor(state, linkedin_url) ==
    \/ NoResults(state)
    \/ /\ state.profile_data.t = "dict"
       /\ state.profile_data.v.url = Str(CleanedUrl(linkedin_url))
       /\ \E job_description \in TypedJobs :
             /\ state.analysis_results =
                    analyze_profile(state.profile_data, job_description)
             /\ \E ai_content \in AiContents :
                   state.suggestions =
                       generate_suggestions(state.analysis_results, job_description,
                                            state.orchestrator.openai_client, ai_content)

ResultsAreForCurrentUrl ==
    \/ session_state.current_url = None /\ NoResults(session_state)
    \/ session_state.current_url # None
       /\ ProducedFor(session_state, session_state.current_url.v)

\* a click on Enhance that reaches the scraper with a URL other than current_url
ClickWithNewUrl ==
    /\ called' = "main"
    /\ IsProfileUrl(arg_url')
    /\ session_state.current_url # Str(arg_url')

\* C23: whenever the session holds profile_data, analysis_results or suggestions
\* they were produced for session_state.current_url; a click that reaches the
\* scraper with a URL other than current_url sets current_url and leaves, when the
\* run fails, all three None, so that no result of the previous URL stays
C23_ResultsBelongToCurrentUrl ==
    /\ []ResultsAreForCurrentUrl
    /\ [][ClickWithNewUrl =>
            /\ session_state'.current_url = Str(arg_url')
            /\ ProducedFor(session_state', arg_url')
            /\ IsRaised(extract_profile_data(arg_url', response', "2025-01-31 09:00:00"))
                   => NoResults(session_state')]_vars

\* the last click asked for a URL whose run timed out: the session holds no result,
\* under that URL
C23_Witness ==
    /\ called = "main"
    /\ arg_url = "linkedin.com/in/bob "
    /\ response.kind = "timeout"
    /\ session_state.current_url = Str(arg_url)
    /\ NoResults(session_state)

\* the session holds the results of a run
C23_ResultsHeld ==
    /\ session_state.current_url = Str("https://www.linkedin.com/in/ann-lee")
    /\ ~NoResults(session_state)
    /\ session_state.analysis_results.v.overall_rating # "Unknown"

----------------------------------------------------------------------------

(* Properties of the step-by-step interface (specification SpecApp2) *)

AnalysisOf(profile_data) ==
    {analyze_profile(profile_data, job_description) : job_description \in TypedJobs}

\* C24: whenever current_analysis is set it is the analysis of the profile held in
\* current_profile_data, and an export never puts the rating of another profile's
\* analysis next to the fields of the profile held.
C24_AnalysisIsOfHeldProfile ==
    /\ app.current_analysis # None =>
          app.current_analysis \in AnalysisOf(app.current_profile_data)
    /\ (called = "export_results" /\ ret.t = "dict" /\ ret.v.overall_rating # None) =>
          \E analysis \in AnalysisOf(app.current_profile_data) :
              /\ ret.v.name = app.current_profile_data.v.name
              /\ ret.v.overall_rating = Str(analysis.v.overall_rating)
              /\ ret.v.completeness_score =
                     Float(Round1(analysis.v.completeness_score))

\* what the code does keep: the analysis held is the analysis of some profile the
\* service returned, for some job description typed
HeldAnalysisIsOfSomeProfile ==
    app.current_analysis # None =>
        \E resp \in App2Outcomes, linkedin_url \in App2Urls :
            /\ resp.kind = "response"
            /\ IsProfileUrl(linkedin_url)
            /\ app.current_analysis \in
                   AnalysisOf(_process_apify_data(FirstResult(resp.json),
                                                  CleanedUrl(linkedin_url),
                                                  "2025-01-31 09:00:00"))

\* a second profile was extracted after the analysis of the first
StaleAnalysisHeld ==
    /\ app.current_analysis # None
    /\ app.current_profile_data # None
    /\ app.current_analysis \notin AnalysisOf(app.current_profile_data)


\* an export that shows the name of one profile with the completeness of another
ExportMixesProfiles ==
    /\ called = "export_results"
    /\ ret.t = "dict"
    /\ ret.v.completeness_score # None
    /\ \A analysis \in AnalysisOf(app.current_profile_data) :
          ret.v.completeness_score # Float(Round1(analysis.v.completeness_score))


StepOrderKept ==
    /\ app.current_suggestions # None => app.current_analysis # None
    /\ app.current_analysis # None => app.current_profile_data # None

\* a call made before its step is due answers with the error and changes nothing;
\* a call made after it does not answer with that error
StepOrderEnforced ==
    /\ called' = "analyze_profile" =>
          IF app.current_profile_data = None
          THEN /\ ret' = Shown("Error", "Please extract profile data first")
               /\ UNCHANGED <<app, memory>>
          ELSE /\ ret' # Shown("Error", "Please extract profile data first")
               /\ app'.current_analysis # None
    /\ called' = "generate_suggestions" =>
          IF app.current_analysis = None
          THEN /\ ret' = Shown("Error", "Please analyze profile first")
               /\ UNCHANGED <<app, memory>>
          ELSE /\ ret' # Shown("Error", "Please analyze profile first")
               /\ app'.current_suggestions # None
    /\ called' = "export_results" =>
          /\ (ret' = Str("No data to export")) <=> (app.current_profile_data = None)
          /\ UNCHANGED <<app, memory>>

\* a profile is stored only by an extraction the scraper answered with a profile,
\* an analysis only by analyze_profile, suggestions only by generate_suggestions
StoredOnlyByItsStep ==
    /\ app'.current_profile_data # app.current_profile_data =>
          /\ called' = "extract_profile_data"
          /\ response'.kind = "response"
          /\ app'.current_profile_data.t = "dict"
          /\ app'.current_profile_data.v.name = FirstResult(response'.json).v.fullName
    /\ app'.current_analysis # app.current_analysis =>
          called' = "analyze_profile"
    /\ app'.current_suggestions # app.current_suggestions =>
          called' = "generate_suggestions"

C25_AllStepsDone ==
    /\ app.current_profile_data # None
    /\ app.current_analysis # None
    /\ app.current_suggestions # None
    /\ called = "export_results"
    /\ ret.t = "dict"

\* the profile is held although the extraction showed an error: its texts could not
\* be formatted after it was stored
ProfileHeldAfterErrorShown ==
    /\ called = "extract_profile_data"
    /\ ret.v[1] = Str("Error")
    /\ response.kind = "response"
    /\ app.current_profile_data # None
    /\ app.current_profile_data.v.name = FirstResult(response.json).v.fullName
    /\ FormattingRaises(app.current_profile_data)


----------------------------------------------------------------------------

(* Properties of the orchestrator (specification SpecOrchestrator) *)

StepOrder ==
    <<"clear_session_cache", "extract_profile_data", "analyze_profile",
      "generate_suggestions", "store_session", "_format_output">>

\* the steps begun are consecutive steps of StepOrder, starting with the clearing
\* of the caches or with the scrape
InStepOrder(begun) ==
    \E first \in 1..2, last \in 2..Len(StepOrder) :
        begun = SubSeq(StepOrder, first, last)

Stored(begun) == \E i \in 1..Len(begun) : begun[i] = "store_session"

Failed(value) == value.t = "str" /\ StartsWith(value.v, "Error in orchestration:")

ScraperAnswered(resp, linkedin_url) ==
    ~IsRaised(extract_profile_data(linkedin_url, resp, "2025-01-31 09:00:00"))

EnhanceProfileReturns ==
    called = "enhance_profile" =>
        /\ ret.t = "str"
        /\ InStepOrder(steps)
        /\ Failed(ret) <=> ~ScraperAnswered(response, arg_url)
        /\ Failed(ret) <=> ~Stored(steps)
        /\ Stored(steps) =>
              /\ arg_url \in DOMAIN memory
              /\ memory[arg_url].profile_data =
                     extract_profile_data(arg_url, response, "2025-01-31 09:00:00")
              /\ memory[arg_url].analysis =
                     analyze_profile(memory[arg_url].profile_data, arg_job)
              /\ memory[arg_url].suggestions.t = "dict"
              /\ memory[arg_url].job_description = arg_job

\* a failed call stores nothing; only a call that begins with the clearing of the
\* caches drops sessions, and it drops them all
FailedCallStoresNothing ==
    /\ Failed(ret') =>
          \A u \in DOMAIN memory' : u \in DOMAIN memory /\ memory'[u] = memory[u]
    /\ Head(steps') = "clear_session_cache" =>
          DOMAIN memory' \subseteq {arg_url'}
    /\ Head(steps') # "clear_session_cache" =>
          \A u \in DOMAIN memory \ {arg_url'} :
              u \in DOMAIN memory' /\ memory'[u] = memory[u]

\* C26: enhance_profile never raises, a failure in a step returns a string that
\* starts with "Error in orchestration:", the steps run in the order cache-clear
\* (only with force_refresh), scrape, analyze, generate suggestions, store session,
\* store_session is called only when the steps before it succeeded, and a failed
\* call stores nothing new.
C26_EnhanceProfileNeverRaises ==
    /\ []EnhanceProfileReturns
    /\ [][FailedCallStoresNothing]_vars

\* a call without force_refresh failed and left the session of an earlier call
C26_Witness ==
    /\ called = "enhance_profile"
    /\ Failed(ret)
    /\ steps = <<"extract_profile_data">>
    /\ arg_url \in DOMAIN memory

\* a call with force_refresh ran all steps and stored its session
C26_AllStepsRun ==
    /\ called = "enhance_profile"
    /\ steps = StepOrder
    /\ ~Failed(ret)
    /\ DOMAIN memory = {arg_url}


----------------------------------------------------------------------------

(* No job description (specification Spec) *)

\* C27: when no job description is given the job match is 0, the rating score is
\* at most 100 x 0.4 + 30 = 70 and the rating is "Good", "Fair" or "Needs
\* Improvement" ("Unknown" for the sentinel), never "Excellent"; "Excellent"
\* requires a job match above 0.
C27_NoJobNeverExcellent ==
    called = "analyze_profile" =>
        /\ arg_job = "" =>
              /\ ret.v.job_match_score = R(0)
              /\ RLe(RatingScore(ret.v), R(70))
              /\ ret.v.overall_rating \in {"Good", "Fair", "Needs Improvement", "Unknown"}
              /\ ret.v.overall_rating = "Unknown" => IsEmptyAnalysis(ret)
        /\ ret.v.overall_rating = "Excellent" => RLt(R(0), ret.v.job_match_score)

\* a profile rated "Good" without a job description
C27_Witness ==
    /\ Analyzed
    /\ arg_job = ""
    /\ ret.v.overall_rating = "Good"

\* the same with the highest score there is without a job description
C27_Score70 ==
    /\ Analyzed
    /\ arg_job = ""
    /\ RatingScore(ret.v) = R(70)

\* a job description was given and nothing of it matched
C27_JobWithoutMatch ==
    /\ Analyzed
    /\ arg_job # ""
    /\ ret.v.job_match_score = R(0)


----------------------------------------------------------------------------

(* The education score in the recommendations (specification SpecMatcher) *)

\* C28: the education score of a match is at least 70, so calculate_match_score
\* never recommends "Consider additional certifications or training",
\* suggest_profile_improvements never suggests "Consider adding relevant
\* certifications or courses", and the overall score is never below 7.
C28_NoEducationRecommendation ==
    /\ called = "calculate_match_score" =>
          /\ RLe(R(70), ret.breakdown.education.score)
          /\ "Consider additional certifications or training"
                \notin Range(ret.recommendations)
          /\ RLe(R(7), ret.overall_score)
    /\ called = "suggest_profile_improvements" =>
          "Consider adding relevant certifications or courses" \notin Range(ret)

\* every other suggestion is made for a profile without education
C28_Witness ==
    /\ called = "suggest_profile_improvements"
    /\ PGet(arg_profile, "education", List(<<>>)).v = <<>>
    /\ Len(ret) = 4
    /\ ret[2] = "Highlight more relevant experience in your current/previous roles"
    /\ ret[4] = "Incorporate more industry-specific keywords throughout your profile"

\* the lowest overall score: nothing matches, and the education score alone counts
C28_OverallScore7 ==
    /\ called = "calculate_match_score"
    /\ ret.overall_score = R(7)
    /\ Len(ret.recommendations) = 3


----------------------------------------------------------------------------

(* The empty job description (specification SpecMatcher) *)

\* C30: for an empty job description calculate_match_score gives the skills score
\* 100, the keywords score 100, the experience score 80 and the education score 70
\* or 85, hence the overall score 91 for a profile without education entries and
\* 92.5 otherwise, and no recommendation, for every profile, the empty one too.
C30_EmptyJobScoresEverythingSatisfied ==
    (called = "calculate_match_score" /\ arg_job = "") =>
        /\ ret.breakdown.skills.score = R(100)
        /\ ret.breakdown.keywords.score = R(100)
        /\ ret.breakdown.experience.score = R(80)
        /\ ret.breakdown.education.score =
              IF PGet(arg_profile, "education", List(<<>>)).v = <<>> THEN R(70) ELSE R(85)
        /\ ret.overall_score =
              IF PGet(arg_profile, "education", List(<<>>)).v = <<>> THEN R(91)
              ELSE Rat(185, 2)
        /\ ret.recommendations = <<>>

\* the entirely empty profile scores 91
C30_Witness ==
    /\ called = "calculate_match_score"
    /\ arg_job = ""
    /\ arg_profile = Profile(Absent, Absent, Absent, Absent, Absent, Absent, Absent)
    /\ ret.overall_score = R(91)

\* a profile with education, skills and experience scores 92.5
C30_FullProfile ==
    /\ called = "calculate_match_score"
    /\ arg_job = ""
    /\ PGet(arg_profile, "education", List(<<>>)).v # <<>>
    /\ PGet(arg_profile, "skills", List(<<>>)).v # <<>>
    /\ PGet(arg_profile, "experience", List(<<>>)).v # <<>>
    /\ ret.overall_score = Rat(185, 2)



----------------------------------------------------------------------------
(* Properties of the parser (specification SpecParser) *)

\* every experience entry of a cleaned profile has duration_months = 0
CleanedMonthsAreZero ==
    (called = "clean_profile_data" /\ ~IsRaised(ret))
        => \A i \in 1..Len(ret.v.experience.v) :
              ret.v.experience.v[i].v.duration_info.v.duration_months = PyInt(0)

\* C29: parse_duration returns duration_months = 0 for every input text, so every
\* experience entry that clean_profile_data returns has 0 months, the matcher's
\* total experience of a cleaned profile is 0 years, and when the job requires
\* experience_years > 0 the experience sub-score is at most 30, whatever the
\* durations say
C29_DurationMonthsAlwaysZero ==
    /\ (called = "parse_duration" /\ ~IsRaised(ret))
           => ret.v.duration_months = PyInt(0)
    /\ CleanedMonthsAreZero
    /\ called = "_calculate_experience_match"
           => /\ ret.details.total_experience = R(0)
              /\ ret.details.required_experience > 0 => RLe(ret.score, R(30))

\* a profile whose roles state "2019 - 2021 2 yrs" and "5 yrs 2 mos" was cleaned
\* and matched against a job that requires 3 years: every role is relevant and
\* the sub-score is exactly 30
C29_Witness ==
    /\ called = "_calculate_experience_match"
    /\ Len(arg_raw_data.v.experience.v) = 2
    /\ \A i \in 1..2 : arg_raw_data.v.experience.v[i].t = "dict"
    /\ arg_raw_data.v.experience.v[1].v.duration = Str("2019 - 2021 · 2 yrs")
    /\ arg_raw_data.v.experience.v[2].v.duration = Str("5 yrs 2 mos")
    /\ ret.details.required_experience = 3
    /\ ret.details.relevant_roles = 2
    /\ ret.details.total_experience = R(0)
    /\ ret.score = R(30)

\* parse_duration found both years of "2019 - 2021 2 yrs" and still reports 0 months
C29_YearsFound ==
    /\ called = "parse_duration"
    /\ ret = Dict([raw |-> Str("2019 - 2021 · 2 yrs"), start_date |-> Str("20"),
                   end_date |-> Str("20"), is_current |-> Bool(FALSE),
                   duration_months |-> PyInt(0)])

\* without required years the sub-score is the constant 80
C29_NoRequiredYears ==
    /\ called = "_calculate_experience_match"
    /\ ret.details.required_experience = 0
    /\ ret.score = R(80)

====
